---- MODULE Spec2Model ----
(***************************************************************************)
(* DuckEx-Server: the redemption store (InMemoryItemRepository), the share *)
(* and claim handlers (ItemHandler), the admission gate (MemoryMonitor)    *)
(* and the in-memory audit engine (InMemoryAuditService).                  *)
(*                                                                         *)
(* Records are Go heap objects: the store's map holds *Item pointers and   *)
(* GetByPickupCode hands the stored pointer to its caller.  heap is the    *)
(* sequence of objects allocated so far, an object's identity is its index *)
(* in heap, and items maps a pickup code to an object identity (NoItem: no *)
(* entry).  Every critical section of a sync.RWMutex is one step; the      *)
(* claim handler's reads and writes of a record through the pointer are    *)
(* outside any lock and are steps of their own.  Time is in hours.         *)
(* Payload fields that no decision reads (name, description, type, ...)    *)
(* are left out of the records.                                            *)
(*                                                                         *)
(* Spec is the server as main wires it.  StoreSpec starts the store from a *)
(* backup file (LoadFromFile, MigrateFromJSON); GateSpec, AuditSpec and    *)
(* PageSpec drive the memory monitor and the audit engine through their    *)
(* own methods, as the unit tests of the repository do.  FaultSpec puts    *)
(* the handlers over a store whose calls may fail, ShareSpec adds the      *)
(* durability fields of a share request, LifeSpec is main from start to    *)
(* exit with its background goroutines, LockSpec is the lock calls of the  *)
(* operations run side by side, and SweeperSpec is the hourly sweeper on   *)
(* a clock of hours.  CapSpec starts the audit engine with a log at its    *)
(* cap, RetentionSpec runs it over ten days, NormSpec and FilterSpec send  *)
(* it queries with paging arguments and filters as a caller may choose     *)
(* them, and ListSpec takes a listing of the store (GetAll) at any moment  *)
(* of the server's run.                                                    *)
(***************************************************************************)
EXTENDS Integers, Sequences, FiniteSets, TLC

\* ---------------------------------------------------------------- bounds
MaxShares == 2      \* share requests handled in one behaviour
MaxTime == 48       \* the clock stops advancing here
ClockStep == 24     \* granularity of the clock, in hours
MaxSamples == 4     \* samples of one trace of the admission gate
MaxEvents == 5      \* audit events logged when the audit engine is driven directly
MaxLogs == 5        \* audit records in the log an audit query reads
MaxAppends == 2     \* LogRecord calls a behaviour adds to the log it starts from
MaxHours == 2       \* hours that pass while the filtered query is driven
MaxAge == 240       \* the clock of the audit engine's retention stops here

\* ------------------------------------------------------- program constants
TTL == 24                   \* models.GetExpirationTime: now + 24h
expirationDuration == 168   \* utils.GetExpirationTime: now + 7*24h
disableThreshold == 80      \* NewMemoryMonitor: 0.8, in percent
enableThreshold == 70       \* NewMemoryMonitor: 0.7, in percent
MaxRecords == 10000         \* LogRecord: cap of the in-memory log
KeepRecords == 5000         \* LogRecord: records kept after a cut
migrateDuration == 168      \* MigrateFromJSON: CreatedAt.AddDate(0, 0, 7)
defaultPageSize == 10       \* GetLogsWithPagination: pageSize < 1
maxPageSize == 100          \* GetLogsWithPagination: pageSize > 100
sweepPeriod == 1            \* main: time.NewTicker(1 * time.Hour)
counterRetention == 168     \* cleanupOldLogs: attempts kept 7*24h

\* ------------------------------------------------------------ input sets
Codes == {"111111", "222222"}    \* pickup codes GeneratePickupCode may draw
Claimers == {"B", "D"}           \* one claim request per claimer id
Sharers == {"A"}
Users == Claimers \cup Sharers \cup {"unknown"}   \* "unknown": LogError of a request that did not bind
UsageSamples == {65, 70, 75, 80, 85}     \* memory usage ratio of a sample, in percent

\* items_backup.json as SaveToFile of an earlier run left it: unclaimed
\* records the handler created (expiry = creation + TTL) before this start
BackupCreated == {-48, -24}
BackupItems ==
    {[code |-> c, createdAt |-> a, expiresAt |-> a + TTL,
      isClaimed |-> FALSE, claimerID |-> "",
      durability |-> 0, durabilityLoss |-> 0] : c \in Codes, a \in BackupCreated}
BackupFiles ==
    {<<>>} \cup {<<x>> : x \in BackupItems}
           \cup {<<x, y>> : x \in BackupItems, y \in BackupItems}

\* audit queries: page, page size and the filters action and level (the
\* filters user_id, pickup_code and time_range are absent from the queries)
Pages == {1, 2, 3, 10}
PageSizes == {2, 3}
Filters == {[action |-> a, level |-> "", user_id |-> "", pickup_code |-> "",
             time_range |-> ""] : a \in {"", "share"}}
LogTimes == {1, 2, 3}            \* timestamps a caller of LogRecord supplies
LogKinds == {"share", "invalid_code"}
Goroutines == {"g1", "g2", "g3"}     \* goroutines that run operations side by side

\* share requests: durability and durability_loss, 0 when the field is
\* absent from the JSON body (float64 fields, binding omitempty,min=0)
Durabilities == {0, 90}
DurabilityLosses == {0, 10}

NoItem == 0
ZeroTime == -1      \* the zero time.Time: no timestamp supplied
NoResp == [http |-> 0, code |-> 0, claimed |-> FALSE, claimer |-> "", pickup |-> ""]
NoShareResp == [http |-> 0, pickup |-> "", expiresAt |-> 0]
NoShareReq == [durability |-> 0, durabilityLoss |-> 0]
Idle == [op |-> "none", pos |-> 0]
NoQuery == [page |-> 0, pageSize |-> 0,
            filters |-> [action |-> "", level |-> "", user_id |-> "",
                         pickup_code |-> "", time_range |-> ""]]
NoList == [called |-> FALSE, items |-> <<>>]
NoLogs == [total |-> -1, page |-> 0, pageSize |-> 0, totalPages |-> 0, logs |-> <<>>]

VARIABLES
    now,            \* the wall clock (time.Now), hours
    heap,           \* the Item objects allocated so far
    items,          \* InMemoryItemRepository.items: code -> object or NoItem
    shares,         \* share requests handled so far
    shareResp,      \* the response of the last share request
    shareDisabled,  \* MemoryMonitor.shareDisabled
    records,        \* InMemoryAuditService.records
    codeAttempts,   \* InMemoryAuditService.codeAttempts
    userAttempts,   \* InMemoryAuditService.userAttempts
    pc,             \* position of each claim request in ClaimItem
    reqCode,        \* req.PickupCode of each claim request
    itemPtr,        \* the claim handler's local item pointer
    attemptRead,    \* LogClaim's local codeAttemptCount
    resp,           \* the response written by each claim request
    \* history variables (not program state)
    won,            \* code -> "answered": a claim of the record last shared
                    \*   under it has been answered with success, "finished":
                    \*   that request has ended; "no": neither
    late,           \* request -> the value of won[code] when it began
    removed,        \* request -> the object its own delete took out of the map
    base,           \* request -> store size at its lookup, -1 once another
                    \*            operation changed the map (or before lookup)
    \* used only where a component is driven directly (GateSpec, PageSpec,
    \* ShareSpec), in the life cycle of the process (LifeSpec) and in the
    \* locking of the operations (LockSpec)
    life,           \* main: phase, stopChan closed, periodic save goroutine
                    \*   alive, codes in items_backup.json, final save done
    at,             \* goroutine -> the operation it runs and its position in it
    shareReq,       \* durability and durability_loss of the last share request
    gateTrace,      \* the samples UpdateStatus has seen and the gate after each
    logsReq,        \* the arguments of the last audit query
    logsResp,       \* the PaginatedLogs of the last audit query
    listed          \* the slice the last GetAll returned

vars == <<now, heap, items, shares, shareResp, shareDisabled, records,
          codeAttempts, userAttempts, pc, reqCode, itemPtr, attemptRead, resp,
          won, late, removed, base, life, at, shareReq, gateTrace, logsReq,
          logsResp, listed>>

storeVars == <<heap, items>>
auditVars == <<records, codeAttempts, userAttempts>>
claimVars == <<pc, reqCode, itemPtr, attemptRead, resp>>
histVars == <<won, late, removed, base>>
unitVars == <<life, at, shareReq, gateTrace, logsReq, logsResp, listed>>

\* ------------------------------------------------------------- the store

\* time.Time.After / Before
After(a, b) == a > b
Before(a, b) == a < b

\* GetCurrentTime().After(item.ExpiresAt)
NeverExpired(o) == FALSE
IsExpired(o) == After(now, heap[o].expiresAt)

\* GetTotalCount: len(r.items)
GetTotalCount == Cardinality({c \in Codes : items[c] # NoItem})

\* Create: r.items[item.PickupCode] = item; return nil
CreateItems(its, code, o) == [its EXCEPT ![code] = o]

\* Delete: delete(r.items, pickupCode)
DeleteNoOp(its, code) == its
DeleteItems(its, code) == [its EXCEPT ![code] = NoItem]

\* DeleteExpired: delete every item with item.ExpiresAt.Before(now)
SweepInclusive(its) ==
    [c \in Codes |-> IF its[c] # NoItem /\ ~After(heap[its[c]].expiresAt, now)
                     THEN NoItem ELSE its[c]]
SweepItems(its) ==
    [c \in Codes |-> IF its[c] # NoItem /\ Before(heap[its[c]].expiresAt, now)
                     THEN NoItem ELSE its[c]]

\* GetByPickupCode, the section under the write lock: the entry is deleted
\* if one (any one) is still there
LazyDeleteNoOp(its, code) == its
LazyDeleteItems(its, code) ==
    IF its[code] # NoItem THEN [its EXCEPT ![code] = NoItem] ELSE its

\* GetByPickupCode, the section under the read lock: "absent" (no entry),
\* "expired" (entry whose expiry has passed: the caller goes on to the
\* write-locked delete) or "found" (the stored pointer is returned)
LookupNoExpiry(code) ==
    IF items[code] = NoItem THEN "absent" ELSE "found"
LookupOutcome(code) ==
    IF items[code] = NoItem THEN "absent"
    ELSE IF IsExpired(items[code]) THEN "expired"
    ELSE "found"

\* history: no later object was shared under the code of object o
IsLatest(o) == \A p \in 1..Len(heap) : heap[p].code = heap[o].code => p <= o

\* history: an operation of `actor` that changes the map disturbs the others
Disturb(actor, newItems) ==
    [u \in Claimers |-> IF u # actor /\ newItems # items THEN -1 ELSE base[u]]

\* ------------------------------------------------------- the audit engine

AuditRecord(action, level, user, code, status, suspicious, reason) ==
    [action |-> action, level |-> level, user |-> user, code |-> code,
     status |-> status, suspicious |-> suspicious, reason |-> reason,
     timestamp |-> ZeroTime]

\* LogRecord, the cap: s.records = s.records[len(s.records)-5000:] when
\* len(s.records) > 10000
RetainedOldest(appended) ==
    IF Len(appended) > MaxRecords THEN SubSeq(appended, 1, KeepRecords)
    ELSE appended
Retained(appended) ==
    IF Len(appended) > MaxRecords
    THEN SubSeq(appended, Len(appended) - KeepRecords + 1, Len(appended))
    ELSE appended

\* LogRecord: stamp the record if it has no timestamp, count the attempt of
\* the code and of the user, append, cut
LogRecordCodeOnly(record) ==
    /\ codeAttempts' = IF record.code # ""
                       THEN [codeAttempts EXCEPT ![record.code] = @ + 1]
                       ELSE codeAttempts
    /\ userAttempts' = userAttempts
    /\ records' = Append(records, [record EXCEPT !.timestamp = now])
LogRecord(record) ==
    /\ codeAttempts' = IF record.code # ""
                       THEN [codeAttempts EXCEPT ![record.code] = @ + 1]
                       ELSE codeAttempts
    /\ userAttempts' = IF record.user # ""
                       THEN [userAttempts EXCEPT ![record.user] = @ + 1]
                       ELSE userAttempts
    /\ LET stamped == IF record.timestamp = ZeroTime
                      THEN [record EXCEPT !.timestamp = now] ELSE record
       IN records' = Retained(Append(records, stamped))

LogShare(user, code) ==
    LogRecord(AuditRecord("share", "info", user, code, 0, FALSE, 0))

\* LogClaim(success = true) after its read of codeAttempts[pickupCode]
LogClaimAtThree(user, code, count) ==
    LogRecord(IF count >= 3
              THEN AuditRecord("claim", "alert", user, code, 200, TRUE, count)
              ELSE AuditRecord("claim", "info", user, code, 200, FALSE, 0))
LogClaim(user, code, count) ==
    LogRecord(IF count > 3
              THEN AuditRecord("claim", "alert", user, code, 200, TRUE, count)
              ELSE AuditRecord("claim", "info", user, code, 200, FALSE, 0))

\* LogClaim(success = false) after its read of codeAttempts[pickupCode]
LogClaimFailed(user, code, count) ==
    LogRecord(IF count > 3
              THEN AuditRecord("claim", "alert", user, code, 400, TRUE, count)
              ELSE AuditRecord("claim", "warning", user, code, 400, FALSE, 0))

LogInvalidCode(user, code) ==
    LogRecord(AuditRecord("invalid_code", "warning", user, code, 404, FALSE, 0))

LogDuplicateCode(user, code) ==
    LogRecord(AuditRecord("duplicate_code", "alert", user, code, 409, TRUE, 0))

LogExpiredCode(user, code) ==
    LogRecord(AuditRecord("expired_code", "warning", user, code, 410, FALSE, 0))

\* LogError leaves PickupCode empty
LogError(user, action, status) ==
    LogRecord(AuditRecord(action, "error", user, "", status, FALSE, 0))

\* ----------------------------------------------------- the admission gate

\* UpdateStatus on a sample of `usage` percent
GateNoHysteresis(disabled, usage) == usage >= disableThreshold
GateAfter(disabled, usage) ==
    IF usage >= disableThreshold THEN TRUE
    ELSE IF usage <= enableThreshold /\ disabled THEN FALSE
    ELSE disabled

Init ==
    /\ now = 0
    /\ heap = <<>>
    /\ items = [c \in Codes |-> NoItem]
    /\ shares = 0
    /\ shareResp = NoShareResp
    /\ shareDisabled = FALSE
    /\ records = <<>>
    /\ codeAttempts = [c \in Codes |-> 0]
    /\ userAttempts = [u \in Users |-> 0]
    /\ pc = [t \in Claimers |-> "idle"]
    /\ reqCode = [t \in Claimers |-> ""]
    /\ itemPtr = [t \in Claimers |-> NoItem]
    /\ attemptRead = [t \in Claimers |-> 0]
    /\ resp = [t \in Claimers |-> NoResp]
    /\ won = [c \in Codes |-> "no"]
    /\ late = [t \in Claimers |-> "no"]
    /\ removed = [t \in Claimers |-> NoItem]
    /\ base = [t \in Claimers |-> -1]
    /\ life = [phase |-> "running", stopClosed |-> FALSE, saverAlive |-> TRUE,
               fileItems |-> {}, finalSave |-> FALSE]
    /\ at = [t \in Goroutines |-> Idle]
    /\ shareReq = NoShareReq
    /\ gateTrace = <<>>
    /\ logsReq = NoQuery
    /\ logsResp = NoLogs
    /\ listed = NoList

\* ------------------------------------------------------------ environment

\* the wall clock advances
Tick ==
    /\ now + ClockStep <= MaxTime
    /\ now' = now + ClockStep
    /\ UNCHANGED <<unitVars, storeVars, shares, shareResp, shareDisabled, auditVars,
                   claimVars, histVars>>

\* the periodic sampler of main: memoryMonitor.UpdateStatus()
Sample(usage) ==
    /\ shareDisabled' = GateAfter(shareDisabled, usage)
    /\ UNCHANGED <<unitVars, now, storeVars, shares, shareResp, auditVars, claimVars, histVars>>

\* the hourly cleanup goroutine of main: itemRepo.DeleteExpired()
DeleteExpired ==
    /\ items' = SweepItems(items)
    /\ base' = Disturb("sweeper", items')
    /\ UNCHANGED <<unitVars, now, heap, shares, shareResp, shareDisabled, auditVars,
                   claimVars, won, late, removed>>

\* ---------------------------------------------------------------- share

\* ShareItem, gate closed: 503 and an error record, the store untouched
ShareRejectedStoring(s, usage) ==
    /\ shares < MaxShares
    /\ shareDisabled' = GateAfter(shareDisabled, usage)
    /\ shareDisabled'
    /\ shares' = shares + 1
    /\ heap' = Append(heap, [code |-> "111111", createdAt |-> now,
                             expiresAt |-> now + TTL,
                             isClaimed |-> FALSE, claimerID |-> "",
                             durability |-> 0, durabilityLoss |-> 0])
    /\ items' = CreateItems(items, "111111", Len(heap'))
    /\ shareResp' = [http |-> 503, pickup |-> "", expiresAt |-> 0]
    /\ LogError(s, "share", 503)
    /\ UNCHANGED <<unitVars, now, claimVars, histVars>>
ShareRejected(s, usage) ==
    /\ shares < MaxShares
    /\ shareDisabled' = GateAfter(shareDisabled, usage)
    /\ shareDisabled'
    /\ shares' = shares + 1
    /\ shareResp' = [http |-> 503, pickup |-> "", expiresAt |-> 0]
    /\ LogError(s, "share", 503)
    /\ UNCHANGED <<unitVars, now, storeVars, claimVars, histVars>>

\* ShareItem: a durability field of the item is set when the request's
\* value is above 0, each field by itself
DurabilityFieldsPaired(d, dl) ==
    IF d > 0 /\ dl > 0 THEN [durability |-> d, durabilityLoss |-> dl]
    ELSE [durability |-> 0, durabilityLoss |-> 0]
DurabilityFields(d, dl) ==
    [durability |-> IF d > 0 THEN d ELSE 0,
     durabilityLoss |-> IF dl > 0 THEN dl ELSE 0]

\* ShareItem, gate open: a fresh item under the generated code is stored
\* (Create never fails), 200 with the code, a share record; d and dl are
\* the request's durability and durability_loss
StoreShare(s, code, usage, d, dl) ==
    /\ shares < MaxShares
    /\ shareDisabled' = GateAfter(shareDisabled, usage)
    /\ ~shareDisabled'
    /\ shares' = shares + 1
    /\ heap' = Append(heap, [code |-> code, createdAt |-> now,
                             expiresAt |-> now + TTL,
                             isClaimed |-> FALSE, claimerID |-> "",
                             durability |-> DurabilityFields(d, dl).durability,
                             durabilityLoss |-> DurabilityFields(d, dl).durabilityLoss])
    /\ items' = CreateItems(items, code, Len(heap'))
    /\ shareResp' = [http |-> 200, pickup |-> code,
                     expiresAt |-> now + expirationDuration]
    /\ LogShare(s, code)
    /\ won' = [won EXCEPT ![code] = "no"]
    /\ late' = [t \in Claimers |-> IF reqCode[t] = code THEN "no" ELSE late[t]]
    /\ base' = Disturb("sharer", items')
    /\ UNCHANGED <<now, claimVars, removed>>

\* a share request without durability fields
ShareAccepted(s, code, usage) ==
    /\ StoreShare(s, code, usage, 0, 0)
    /\ UNCHANGED unitVars

ShareItem ==
    \E s \in Sharers, usage \in UsageSamples :
        \/ ShareRejected(s, usage)
        \/ \E code \in Codes : ShareAccepted(s, code, usage)

\* ---------------------------------------------------------------- claim

\* ClaimItem: where the handler goes once the claimed and expiry checks pass
SkipClaimUpdate == "respond"
NextAfterChecks == "mark"

\* ClaimItem binds the request and calls GetByPickupCode (read-locked part);
\* the memory monitor is not consulted
ClaimLookupGated(t, code) ==
    /\ ~shareDisabled
    /\ pc[t] = "idle"
    /\ reqCode' = [reqCode EXCEPT ![t] = code]
    /\ LET outcome == LookupOutcome(code)
       IN /\ pc' = [pc EXCEPT ![t] = CASE outcome = "absent" -> "notfound"
                                      [] outcome = "expired" -> "lazyDelete"
                                      [] outcome = "found" -> "checkClaimed"]
          /\ itemPtr' = [itemPtr EXCEPT ![t] = IF outcome = "absent" THEN NoItem
                                               ELSE items[code]]
    /\ late' = [late EXCEPT ![t] = won[code]]
    /\ base' = [base EXCEPT ![t] = GetTotalCount]
    /\ UNCHANGED <<unitVars, now, storeVars, shares, shareResp, shareDisabled, auditVars,
                   attemptRead, resp, won, removed>>
ClaimLookup(t, code) ==
    /\ pc[t] = "idle"
    /\ reqCode' = [reqCode EXCEPT ![t] = code]
    /\ LET outcome == LookupOutcome(code)
       IN /\ pc' = [pc EXCEPT ![t] = CASE outcome = "absent" -> "notfound"
                                      [] outcome = "expired" -> "lazyDelete"
                                      [] outcome = "found" -> "checkClaimed"]
          /\ itemPtr' = [itemPtr EXCEPT ![t] = IF outcome = "absent" THEN NoItem
                                               ELSE items[code]]
    /\ late' = [late EXCEPT ![t] = won[code]]
    /\ base' = [base EXCEPT ![t] = GetTotalCount]
    /\ UNCHANGED <<unitVars, now, storeVars, shares, shareResp, shareDisabled, auditVars,
                   attemptRead, resp, won, removed>>

\* GetByPickupCode, expired entry: the write-locked re-check and delete,
\* then return nil, nil
ClaimLazyDelete(t) ==
    /\ pc[t] = "lazyDelete"
    /\ items' = LazyDeleteItems(items, reqCode[t])
    /\ removed' = [removed EXCEPT ![t] = IF items' # items THEN items[reqCode[t]]
                                         ELSE NoItem]
    /\ itemPtr' = [itemPtr EXCEPT ![t] = NoItem]
    /\ pc' = [pc EXCEPT ![t] = "notfound"]
    /\ base' = Disturb(t, items')
    /\ UNCHANGED <<unitVars, now, heap, shares, shareResp, shareDisabled, auditVars,
                   reqCode, attemptRead, resp, won, late>>

\* item == nil: HTTP 404 and an invalid_code record
ClaimNotFound(t) ==
    /\ pc[t] = "notfound"
    /\ resp' = [resp EXCEPT ![t] = [NoResp EXCEPT !.http = 404, !.code = 404]]
    /\ LogInvalidCode(t, reqCode[t])
    /\ pc' = [pc EXCEPT ![t] = "done"]
    /\ UNCHANGED <<unitVars, now, storeVars, shares, shareResp, shareDisabled,
                   reqCode, itemPtr, attemptRead, histVars>>

\* if item.IsClaimed: an unlocked read through the stored pointer
ClaimCheckClaimed(t) ==
    /\ pc[t] = "checkClaimed"
    /\ pc' = [pc EXCEPT ![t] = IF heap[itemPtr[t]].isClaimed THEN "duplicate"
                               ELSE "checkExpired"]
    /\ UNCHANGED <<unitVars, now, storeVars, shares, shareResp, shareDisabled, auditVars,
                   reqCode, itemPtr, attemptRead, resp, histVars>>

\* already claimed: HTTP 200 with code 409 and a duplicate_code record
ClaimDuplicate(t) ==
    /\ pc[t] = "duplicate"
    /\ resp' = [resp EXCEPT ![t] = [NoResp EXCEPT !.http = 200, !.code = 409]]
    /\ LogDuplicateCode(t, reqCode[t])
    /\ pc' = [pc EXCEPT ![t] = "done"]
    /\ UNCHANGED <<unitVars, now, storeVars, shares, shareResp, shareDisabled,
                   reqCode, itemPtr, attemptRead, histVars>>

\* if GetCurrentTime().After(item.ExpiresAt)
ClaimCheckExpired(t) ==
    /\ pc[t] = "checkExpired"
    /\ pc' = [pc EXCEPT ![t] = IF IsExpired(itemPtr[t]) THEN "expired"
                               ELSE NextAfterChecks]
    /\ UNCHANGED <<unitVars, now, storeVars, shares, shareResp, shareDisabled, auditVars,
                   reqCode, itemPtr, attemptRead, resp, histVars>>

\* expired: HTTP 200 with code 410 and an expired_code record
ClaimExpired(t) ==
    /\ pc[t] = "expired"
    /\ resp' = [resp EXCEPT ![t] = [NoResp EXCEPT !.http = 200, !.code = 410]]
    /\ LogExpiredCode(t, reqCode[t])
    /\ pc' = [pc EXCEPT ![t] = "done"]
    /\ UNCHANGED <<unitVars, now, storeVars, shares, shareResp, shareDisabled,
                   reqCode, itemPtr, attemptRead, histVars>>

\* item.IsClaimed = true: an unlocked write through the stored pointer
ClaimMark(t) ==
    /\ pc[t] = "mark"
    /\ heap' = [heap EXCEPT ![itemPtr[t]].isClaimed = TRUE]
    /\ pc' = [pc EXCEPT ![t] = "setClaimer"]
    /\ UNCHANGED <<unitVars, now, items, shares, shareResp, shareDisabled, auditVars,
                   reqCode, itemPtr, attemptRead, resp, histVars>>

\* item.ClaimerID = req.ClaimerID: an unlocked write
ClaimSetClaimer(t) ==
    /\ pc[t] = "setClaimer"
    /\ heap' = [heap EXCEPT ![itemPtr[t]].claimerID = t]
    /\ pc' = [pc EXCEPT ![t] = "delete"]
    /\ UNCHANGED <<unitVars, now, items, shares, shareResp, shareDisabled, auditVars,
                   reqCode, itemPtr, attemptRead, resp, histVars>>

\* h.itemRepo.Delete(req.PickupCode): never fails in memory
ClaimDelete(t) ==
    /\ pc[t] = "delete"
    /\ items' = DeleteItems(items, reqCode[t])
    /\ removed' = [removed EXCEPT ![t] = items[reqCode[t]]]
    /\ base' = Disturb(t, items')
    /\ pc' = [pc EXCEPT ![t] = "respond"]
    /\ UNCHANGED <<unitVars, now, heap, shares, shareResp, shareDisabled, auditVars,
                   reqCode, itemPtr, attemptRead, resp, won, late>>

\* c.JSON(200, {Code: 200, Item: item}) serialises the record through the
\* pointer; then LogClaim reads codeAttempts[pickupCode] under the read lock
ClaimRespond(t) ==
    /\ pc[t] = "respond"
    /\ resp' = [resp EXCEPT ![t] = [http |-> 200, code |-> 200,
                                    claimed |-> heap[itemPtr[t]].isClaimed,
                                    claimer |-> heap[itemPtr[t]].claimerID,
                                    pickup |-> heap[itemPtr[t]].code]]
    /\ attemptRead' = [attemptRead EXCEPT ![t] = codeAttempts[reqCode[t]]]
    /\ pc' = [pc EXCEPT ![t] = "logClaim"]
    /\ won' = [won EXCEPT ![reqCode[t]] =
                  IF IsLatest(itemPtr[t]) /\ @ = "no" THEN "answered" ELSE @]
    /\ UNCHANGED <<unitVars, now, storeVars, shares, shareResp, shareDisabled, auditVars,
                   reqCode, itemPtr, late, removed, base>>

\* LogClaim: the claim record is built from the count read and appended
ClaimLogClaim(t) ==
    /\ pc[t] = "logClaim"
    /\ LogClaim(t, reqCode[t], attemptRead[t])
    /\ pc' = [pc EXCEPT ![t] = "done"]
    /\ won' = [won EXCEPT ![reqCode[t]] =
                  IF IsLatest(itemPtr[t]) THEN "finished" ELSE @]
    /\ UNCHANGED <<unitVars, now, storeVars, shares, shareResp, shareDisabled,
                   reqCode, itemPtr, attemptRead, resp, late, removed, base>>

ClaimItem ==
    \E t \in Claimers :
        \/ \E code \in Codes : ClaimLookup(t, code)
        \/ ClaimLazyDelete(t)
        \/ ClaimNotFound(t)
        \/ ClaimCheckClaimed(t)
        \/ ClaimDuplicate(t)
        \/ ClaimCheckExpired(t)
        \/ ClaimExpired(t)
        \/ ClaimMark(t)
        \/ ClaimSetClaimer(t)
        \/ ClaimDelete(t)
        \/ ClaimRespond(t)
        \/ ClaimLogClaim(t)

Next ==
    \/ Tick
    \/ \E usage \in UsageSamples : Sample(usage)
    \/ DeleteExpired
    \/ ShareItem
    \/ ClaimItem

Spec == Init /\ [][Next]_vars

\* ------------------------------------------------- start from a backup file

\* LoadFromFile, the loop: every record of the file that is neither expired
\* nor claimed is put in the map under its code
RECURSIVE LoadAll(_, _)
LoadAll(file, st) ==
    IF file = <<>> THEN st
    ELSE LET item == Head(file)
             st2 == IF ~After(now, item.expiresAt) /\ ~item.isClaimed
                    THEN [heap |-> Append(st.heap, item),
                          items |-> CreateItems(st.items, item.code, Len(st.heap) + 1)]
                    ELSE st
         IN LoadAll(Tail(file), st2)

\* MigrateFromJSON, the loop: the record is rebuilt with ExpiresAt =
\* CreatedAt + 7 days, skipped if that has passed or if GetByPickupCode
\* returns a record for its code, and created otherwise
RECURSIVE MigrateAll(_, _)
MigrateAll(file, st) ==
    IF file = <<>> THEN st
    ELSE LET item == [Head(file) EXCEPT !.expiresAt = Head(file).createdAt + migrateDuration]
             existing == /\ st.items[item.code] # NoItem
                         /\ ~After(now, st.heap[st.items[item.code]].expiresAt)
             st2 == IF ~After(now, item.expiresAt) /\ ~existing
                    THEN [heap |-> Append(st.heap, item),
                          items |-> CreateItems(st.items, item.code, Len(st.heap) + 1)]
                    ELSE st
         IN MigrateAll(Tail(file), st2)

\* the process has just started: nothing has been handled yet
Starting == now = 0 /\ shares = 0 /\ heap = <<>>

\* NewInMemoryItemRepository: repo.LoadFromFile()
LoadFromFile(file) ==
    /\ Starting
    /\ LET st == LoadAll(file, [heap |-> heap, items |-> items])
       IN heap' = st.heap /\ items' = st.items
    /\ UNCHANGED <<unitVars, now, shares, shareResp, shareDisabled, auditVars,
                   claimVars, histVars>>

\* main of the SQLite deployment: itemRepo.MigrateFromJSON(jsonBackupPath)
MigrateFromJSON(file) ==
    /\ Starting
    /\ LET st == MigrateAll(file, [heap |-> heap, items |-> items])
       IN heap' = st.heap /\ items' = st.items
    /\ UNCHANGED <<unitVars, now, shares, shareResp, shareDisabled, auditVars,
                   claimVars, histVars>>

\* the store from its start: a backup is loaded or migrated, then records
\* are shared, time passes and the sweeper runs
StoreNext ==
    \/ \E file \in BackupFiles : LoadFromFile(file)
    \/ \E file \in BackupFiles : MigrateFromJSON(file)
    \/ ShareItem
    \/ Tick
    \/ DeleteExpired

StoreSpec == Init /\ [][StoreNext]_vars

\* ------------------------------------------- the admission gate by itself

\* MemoryMonitor.UpdateStatus called on a fresh monitor, sample after sample
UpdateStatusReopening(usage) ==
    /\ Len(gateTrace) < MaxSamples
    /\ shareDisabled' = (usage >= disableThreshold)
    /\ gateTrace' = Append(gateTrace, [usage |-> usage, disabled |-> shareDisabled'])
    /\ UNCHANGED <<life, at, shareReq, logsReq, logsResp, listed, now, storeVars, shares,
                   shareResp, auditVars, claimVars, histVars>>
UpdateStatus(usage) ==
    /\ Len(gateTrace) < MaxSamples
    /\ shareDisabled' = GateAfter(shareDisabled, usage)
    /\ gateTrace' = Append(gateTrace, [usage |-> usage, disabled |-> shareDisabled'])
    /\ UNCHANGED <<life, at, shareReq, logsReq, logsResp, listed, now, storeVars, shares,
                   shareResp, auditVars, claimVars, histVars>>

GateNext == \E usage \in UsageSamples : UpdateStatus(usage)

GateSpec == Init /\ [][GateNext]_vars

\* --------------------------------------------- the audit engine by itself

\* the callers of the audit engine when it is driven directly
Prober == "D"
Redeemer == "B"

\* LogClaim calls that have read the counter and not yet appended
Pending == Cardinality({t \in Claimers : pc[t] # "idle"})

\* LogShare
AuditLogShare(u, c) ==
    /\ Len(records) + Pending < MaxEvents
    /\ LogShare(u, c)
    /\ UNCHANGED <<unitVars, now, storeVars, shares, shareResp, shareDisabled,
                   claimVars, histVars>>

\* LogInvalidCode
AuditLogInvalidCode(u, c) ==
    /\ Len(records) + Pending < MaxEvents
    /\ LogInvalidCode(u, c)
    /\ UNCHANGED <<unitVars, now, storeVars, shares, shareResp, shareDisabled,
                   claimVars, histVars>>

\* LogClaim, first part: codeAttemptCount is read under the read lock
AuditClaimRead(t, c, success) ==
    /\ Len(records) + Pending < MaxEvents
    /\ pc[t] = "idle"
    /\ reqCode' = [reqCode EXCEPT ![t] = c]
    /\ attemptRead' = [attemptRead EXCEPT ![t] = codeAttempts[c]]
    /\ pc' = [pc EXCEPT ![t] = IF success THEN "logClaim" ELSE "logClaimFailed"]
    /\ UNCHANGED <<unitVars, now, storeVars, shares, shareResp, shareDisabled,
                   auditVars, itemPtr, resp, histVars>>

\* LogClaim, second part: the record is built from the count read and
\* handed to LogRecord
AuditClaimLog(t) ==
    /\ pc[t] \in {"logClaim", "logClaimFailed"}
    /\ IF pc[t] = "logClaim" THEN LogClaim(t, reqCode[t], attemptRead[t])
       ELSE LogClaimFailed(t, reqCode[t], attemptRead[t])
    /\ pc' = [pc EXCEPT ![t] = "idle"]
    /\ UNCHANGED <<unitVars, now, storeVars, shares, shareResp, shareDisabled,
                   reqCode, itemPtr, attemptRead, resp, histVars>>

AuditNext ==
    \/ \E u \in Sharers, c \in Codes : AuditLogShare(u, c)
    \/ \E c \in Codes : AuditLogInvalidCode(Prober, c)
    \/ \E c \in Codes, success \in BOOLEAN : AuditClaimRead(Redeemer, c, success)
    \/ AuditClaimLog(Redeemer)

AuditSpec == Init /\ [][AuditNext]_vars

\* ------------------------------------------------------- the audit query

\* the bytes of the strings that occur as actor ids, pickup codes and
\* filter values
Chars ==
    [s \in {"", "A", "B", "D", "unknown", "111111", "222222",
            "a", "NOW", "x", "12", "2"} |->
        CASE s = "" -> <<>>
          [] s = "A" -> <<"A">>
          [] s = "B" -> <<"B">>
          [] s = "D" -> <<"D">>
          [] s = "unknown" -> <<"u", "n", "k", "n", "o", "w", "n">>
          [] s = "111111" -> <<"1", "1", "1", "1", "1", "1">>
          [] s = "222222" -> <<"2", "2", "2", "2", "2", "2">>
          [] s = "a" -> <<"a">>
          [] s = "NOW" -> <<"N", "O", "W">>
          [] s = "x" -> <<"x">>
          [] s = "12" -> <<"1", "2">>
          [] s = "2" -> <<"2">>]

\* the letters of these strings, lower case and upper case
Letters == <<<<"a", "A">>, <<"b", "B">>, <<"d", "D">>, <<"k", "K">>,
            <<"n", "N">>, <<"o", "O">>, <<"u", "U">>, <<"w", "W">>, <<"x", "X">>>>

\* strings.ToLower, strings.ToUpper
ToLower(chars) ==
    [i \in 1..Len(chars) |->
        IF \E l \in 1..Len(Letters) : Letters[l][2] = chars[i]
        THEN Letters[CHOOSE l \in 1..Len(Letters) : Letters[l][2] = chars[i]][1]
        ELSE chars[i]]
ToUpper(chars) ==
    [i \in 1..Len(chars) |->
        IF \E l \in 1..Len(Letters) : Letters[l][1] = chars[i]
        THEN Letters[CHOOSE l \in 1..Len(Letters) : Letters[l][1] = chars[i]][2]
        ELSE chars[i]]

\* strings.Contains
Contains(chars, substr) ==
    \E k \in 0..(Len(chars) - Len(substr)) :
        \A i \in 1..Len(substr) : chars[k + i] = substr[i]

\* the switch on timeRange: hours from cutoffTime to now; a value that is
\* no case of the switch leaves cutoffTime zero
windowHours == [tr \in {"1h", "6h", "24h", "7d"} |->
                  CASE tr = "1h" -> 1 [] tr = "6h" -> 6 [] tr = "24h" -> 24
                    [] tr = "7d" -> 7 * 24]

\* GetLogsWithPagination: the filter loop (a filter applies when non-empty)
Matches(record, filters) ==
    /\ filters.action # "" => record.action = filters.action
    /\ filters.level # "" => record.level = filters.level
    /\ filters.user_id # ""
          => Contains(ToLower(Chars[record.user]), ToLower(Chars[filters.user_id]))
    /\ filters.pickup_code # ""
          => Contains(ToUpper(Chars[record.code]), ToUpper(Chars[filters.pickup_code]))
    /\ (filters.time_range \notin {"", "all"} /\ filters.time_range \in DOMAIN windowHours)
          => ~Before(record.timestamp, now - windowHours[filters.time_range])

FilterRecords(recs, filters) == SelectSeq(recs, LAMBDA r : Matches(r, filters))

\* one iteration of the inner loop: swap when
\* logs[j].Timestamp.Before(logs[j+1].Timestamp)
BubbleStepOnTies(logs, j) ==
    IF ~After(logs[j].timestamp, logs[j + 1].timestamp)
    THEN [logs EXCEPT ![j] = logs[j + 1], ![j + 1] = logs[j]]
    ELSE logs
BubbleStep(logs, j) ==
    IF Before(logs[j].timestamp, logs[j + 1].timestamp)
    THEN [logs EXCEPT ![j] = logs[j + 1], ![j + 1] = logs[j]]
    ELSE logs

\* the inner loop of the bubble sort: for j := 0; j < len-i-1; j++, here
\* the iterations j..last in their order (the first half of them, then the
\* second half on the slice x the first half left)
RECURSIVE BubblePass(_, _, _)
BubblePass(logs, j, last) ==
    IF j > last THEN logs
    ELSE IF j = last THEN BubbleStep(logs, j)
    ELSE LET mid == (j + last) \div 2
         IN CHOOSE sorted \in {BubblePass(x, mid + 1, last) :
                                   x \in {BubblePass(logs, j, mid)}} : TRUE

\* the iterations i..k of the outer loop in their order
RECURSIVE BubblePasses(_, _, _)
BubblePasses(logs, i, k) ==
    IF i > k THEN logs
    ELSE IF i = k THEN BubblePass(logs, 1, Len(logs) - i - 1)
    ELSE LET mid == (i + k) \div 2
         IN CHOOSE sorted \in {BubblePasses(x, mid + 1, k) :
                                   x \in {BubblePasses(logs, i, mid)}} : TRUE

\* the outer loop: for i := 0; i < len-1; i++
BubbleSort(logs, i) == BubblePasses(logs, i, Len(logs) - 2)

\* totalPages := (total + pageSize - 1) / pageSize
TotalPagesFloor(total, pageSize) == total \div pageSize
TotalPages(total, pageSize) == (total + pageSize - 1) \div pageSize

\* if page < 1 { page = 1 }
NormalPage(page) == IF page < 1 THEN 1 ELSE page

\* if pageSize < 1 { pageSize = 10 } else if pageSize > 100 { pageSize = 100 }
NormalPageSizeUnclamped(pageSize) ==
    IF pageSize < 1 THEN defaultPageSize ELSE pageSize
NormalPageSize(pageSize) ==
    IF pageSize < 1 THEN defaultPageSize
    ELSE IF pageSize > maxPageSize THEN maxPageSize
    ELSE pageSize

GetLogsWithPagination(page, pageSize, filters) ==
    LET p == NormalPage(page)
        ps == NormalPageSize(pageSize)
        filteredRecords == BubbleSort(FilterRecords(records, filters), 0)
        total == Len(filteredRecords)
        offset == (p - 1) * ps
        end == IF offset + ps > total THEN total ELSE offset + ps
    IN [total |-> total, page |-> p, pageSize |-> ps,
        totalPages |-> TotalPages(total, ps),
        logs |-> IF offset < total THEN SubSeq(filteredRecords, offset + 1, end)
                 ELSE <<>>]

\* LogRecord with a record that carries its own timestamp
PageLogRecord(kind, ts) ==
    /\ Len(records) < MaxLogs
    /\ logsResp = NoLogs
    /\ LogRecord([AuditRecord(kind, IF kind = "share" THEN "info" ELSE "warning",
                              "A", "111111", 0, FALSE, 0)
                  EXCEPT !.timestamp = ts])
    /\ UNCHANGED <<unitVars, now, storeVars, shares, shareResp, shareDisabled,
                   claimVars, histVars>>

\* one query of the log
PageQuery(page, pageSize, filters) ==
    /\ logsResp = NoLogs
    /\ logsReq' = [page |-> page, pageSize |-> pageSize, filters |-> filters]
    /\ logsResp' = GetLogsWithPagination(page, pageSize, filters)
    /\ UNCHANGED <<life, at, shareReq, gateTrace, listed, now, storeVars, shares, shareResp,
                   shareDisabled, auditVars, claimVars, histVars>>

PageNext ==
    \/ \E kind \in LogKinds, ts \in LogTimes : PageLogRecord(kind, ts)
    \/ \E page \in Pages, pageSize \in PageSizes, filters \in Filters :
          PageQuery(page, pageSize, filters)

PageSpec == Init /\ [][PageNext]_vars

\* ------------------------------------ the claim handler over a failing store

\* ClaimItem, ShouldBindJSON fails: HTTP 400 with code 400 and an error
\* record of user "unknown"; the store is not called
ClaimBadRequest(t) ==
    /\ pc[t] = "idle"
    /\ resp' = [resp EXCEPT ![t] = [NoResp EXCEPT !.http = 400, !.code = 400]]
    /\ LogError("unknown", "claim", 400)
    /\ pc' = [pc EXCEPT ![t] = "done"]
    /\ UNCHANGED <<unitVars, now, storeVars, shares, shareResp, shareDisabled,
                   reqCode, itemPtr, attemptRead, histVars>>

\* GetByPickupCode returns (nil, err): the query failed with an error other
\* than sql.ErrNoRows
ClaimLookupFails(t, code) ==
    /\ pc[t] = "idle"
    /\ reqCode' = [reqCode EXCEPT ![t] = code]
    /\ pc' = [pc EXCEPT ![t] = "storeError"]
    /\ UNCHANGED <<unitVars, now, storeVars, shares, shareResp, shareDisabled, auditVars,
                   itemPtr, attemptRead, resp, histVars>>

\* err != nil after GetByPickupCode: HTTP 200 with code 500 and an error
\* record
ClaimStoreErrorAsNotFound(t) ==
    /\ pc[t] = "storeError"
    /\ resp' = [resp EXCEPT ![t] = [NoResp EXCEPT !.http = 404, !.code = 404]]
    /\ LogInvalidCode(t, reqCode[t])
    /\ pc' = [pc EXCEPT ![t] = "done"]
    /\ UNCHANGED <<unitVars, now, storeVars, shares, shareResp, shareDisabled,
                   reqCode, itemPtr, attemptRead, histVars>>
ClaimStoreError(t) ==
    /\ pc[t] = "storeError"
    /\ resp' = [resp EXCEPT ![t] = [NoResp EXCEPT !.http = 200, !.code = 500]]
    /\ LogError(t, "claim", 500)
    /\ pc' = [pc EXCEPT ![t] = "done"]
    /\ UNCHANGED <<unitVars, now, storeVars, shares, shareResp, shareDisabled,
                   reqCode, itemPtr, attemptRead, histVars>>

\* h.itemRepo.Delete returns an error: the row stays in the store
ClaimDeleteFails(t) ==
    /\ pc[t] = "delete"
    /\ pc' = [pc EXCEPT ![t] = "deleteError"]
    /\ UNCHANGED <<unitVars, now, storeVars, shares, shareResp, shareDisabled, auditVars,
                   reqCode, itemPtr, attemptRead, resp, histVars>>

\* err != nil after Delete: HTTP 500 with code 500 and an error record
ClaimDeleteError(t) ==
    /\ pc[t] = "deleteError"
    /\ resp' = [resp EXCEPT ![t] = [NoResp EXCEPT !.http = 500, !.code = 500]]
    /\ LogError(t, "claim", 500)
    /\ pc' = [pc EXCEPT ![t] = "done"]
    /\ UNCHANGED <<unitVars, now, storeVars, shares, shareResp, shareDisabled,
                   reqCode, itemPtr, attemptRead, histVars>>

\* the handlers over an ItemRepository whose calls may fail (the SQLite
\* store), with requests that may be malformed
\* ShareItem over a store whose Create returns an error (the INSERT of the
\* SQLite store fails): nothing is stored, 500 with an ErrorResponse and
\* LogError
ShareCreateFailsUnnoticed(s, code, usage) ==
    /\ shares < MaxShares
    /\ shareDisabled' = GateAfter(shareDisabled, usage)
    /\ ~shareDisabled'
    /\ shares' = shares + 1
    /\ shareResp' = [http |-> 200, pickup |-> code,
                     expiresAt |-> now + expirationDuration]
    /\ LogShare(s, code)
    /\ UNCHANGED <<unitVars, now, storeVars, claimVars, histVars>>
ShareCreateFails(s, code, usage) ==
    /\ shares < MaxShares
    /\ shareDisabled' = GateAfter(shareDisabled, usage)
    /\ ~shareDisabled'
    /\ shares' = shares + 1
    /\ shareResp' = [http |-> 500, pickup |-> "", expiresAt |-> 0]
    /\ LogError(s, "share", 500)
    /\ UNCHANGED <<unitVars, now, storeVars, claimVars, histVars>>

FaultNext ==
    \/ Tick
    \/ ShareItem
    \/ \E s \in Sharers, code \in Codes, usage \in UsageSamples :
          ShareCreateFails(s, code, usage)
    \/ ClaimItem
    \/ \E t \in Claimers :
          \/ ClaimBadRequest(t)
          \/ \E code \in Codes : ClaimLookupFails(t, code)
          \/ ClaimStoreError(t)
          \/ ClaimDeleteFails(t)
          \/ ClaimDeleteError(t)

FaultSpec == Init /\ [][FaultNext]_vars

\* ------------------------------------------- shares with durability fields

\* ShareItem on a request that may carry durability and durability_loss
ShareDurable(s, code, usage, d, dl) ==
    /\ StoreShare(s, code, usage, d, dl)
    /\ shareReq' = [durability |-> d, durabilityLoss |-> dl]
    /\ UNCHANGED <<life, at, gateTrace, logsReq, logsResp, listed>>

ShareNext ==
    \/ Tick
    \/ DeleteExpired
    \/ \E s \in Sharers, usage \in UsageSamples :
          \/ ShareRejected(s, usage)
          \/ \E code \in Codes, d \in Durabilities, dl \in DurabilityLosses :
                ShareDurable(s, code, usage, d, dl)

ShareSpec == Init /\ [][ShareNext]_vars

\* ------------------------------------------------- the life of the process

\* SaveToFile: the codes of the items that are neither claimed nor expired
SavedItems ==
    {c \in Codes : /\ items[c] # NoItem
                   /\ ~heap[items[c]].isClaimed
                   /\ ~IsExpired(items[c])}

Alive == life.phase # "exited"

\* requests are served until main receives a signal
LifeShare == life.phase = "running" /\ ShareItem

LifeTick == Alive /\ Tick

\* main's hourly cleanup goroutine: for { select { case <-ticker.C: ... } },
\* no stop channel
LifeSweep == Alive /\ DeleteExpired

\* main's memory monitor goroutine: for { select { case <-ticker.C: ... } },
\* no stop channel
LifeSample(usage) == Alive /\ Sample(usage)

\* startPeriodicSave, case <-r.ticker.C: r.SaveToFile(); select may take
\* this case while stopChan is closed too, when both are ready
PeriodicSave ==
    /\ Alive /\ life.saverAlive
    /\ life' = [life EXCEPT !.fileItems = SavedItems]
    /\ UNCHANGED <<at, shareReq, gateTrace, logsReq, logsResp, listed, now, storeVars, shares,
                   shareResp, shareDisabled, auditVars, claimVars, histVars>>

\* startPeriodicSave, case <-r.stopChan: r.ticker.Stop(); return
SaverStops ==
    /\ Alive /\ life.saverAlive /\ life.stopClosed
    /\ life' = [life EXCEPT !.saverAlive = FALSE]
    /\ UNCHANGED <<at, shareReq, gateTrace, logsReq, logsResp, listed, now, storeVars, shares,
                   shareResp, shareDisabled, auditVars, claimVars, histVars>>

\* main: <-quit (SIGINT or SIGTERM)
Signal ==
    /\ life.phase = "running"
    /\ life' = [life EXCEPT !.phase = "signalled"]
    /\ UNCHANGED <<at, shareReq, gateTrace, logsReq, logsResp, listed, now, storeVars, shares,
                   shareResp, shareDisabled, auditVars, claimVars, histVars>>

\* main: srv.Shutdown(ctx) returns nil, exportItemsToCSV, main returns and
\* its deferred function begins
ServerShutdown ==
    /\ life.phase = "signalled"
    /\ life' = [life EXCEPT !.phase = "returning"]
    /\ UNCHANGED <<at, shareReq, gateTrace, logsReq, logsResp, listed, now, storeVars, shares,
                   shareResp, shareDisabled, auditVars, claimVars, histVars>>

\* main: srv.Shutdown(ctx) returns an error (the 5 s grace period ran out):
\* log.Fatalf exits the process, deferred functions do not run
ServerShutdownFails ==
    /\ life.phase = "signalled"
    /\ life' = [life EXCEPT !.phase = "exited"]
    /\ UNCHANGED <<at, shareReq, gateTrace, logsReq, logsResp, listed, now, storeVars, shares,
                   shareResp, shareDisabled, auditVars, claimVars, histVars>>

\* the deferred function of main, Shutdown: close(r.stopChan)
ShutdownClose ==
    /\ life.phase = "returning"
    /\ life' = [life EXCEPT !.phase = "closed", !.stopClosed = TRUE]
    /\ UNCHANGED <<at, shareReq, gateTrace, logsReq, logsResp, listed, now, storeVars, shares,
                   shareResp, shareDisabled, auditVars, claimVars, histVars>>

\* Shutdown: return r.SaveToFile(); then the process exits
ShutdownSave ==
    /\ life.phase = "closed"
    /\ life' = [life EXCEPT !.phase = "exited", !.fileItems = SavedItems,
                            !.finalSave = TRUE]
    /\ UNCHANGED <<at, shareReq, gateTrace, logsReq, logsResp, listed, now, storeVars, shares,
                   shareResp, shareDisabled, auditVars, claimVars, histVars>>

LifeNext ==
    \/ LifeShare
    \/ LifeTick
    \/ LifeSweep
    \/ \E usage \in UsageSamples : LifeSample(usage)
    \/ PeriodicSave
    \/ SaverStops
    \/ Signal
    \/ ServerShutdown
    \/ ServerShutdownFails
    \/ ShutdownClose
    \/ ShutdownSave

LifeSpec == Init /\ [][LifeNext]_vars

\* ------------------------------------------- the locking of the operations

\* An operation is the sequence of the lock calls and file writes it makes,
\* in program order; a deferred Unlock comes last.  The locks are r.mutex
\* and r.fileMutex of InMemoryItemRepository, s.mutex of
\* InMemoryAuditService and m.mu of MemoryMonitor.
Ins(do, lock) == [do |-> do, lock |-> lock]

LocksOfCreate == <<Ins("Lock", "r.mutex"), Ins("Unlock", "r.mutex")>>

\* GetByPickupCode, entry absent or live
LocksOfGetByPickupCode == <<Ins("RLock", "r.mutex"), Ins("RUnlock", "r.mutex")>>

\* GetByPickupCode, entry expired
LocksOfLazyDelete ==
    <<Ins("RLock", "r.mutex"), Ins("RUnlock", "r.mutex"),
      Ins("Lock", "r.mutex"), Ins("Unlock", "r.mutex")>>

LocksOfDelete == <<Ins("Lock", "r.mutex"), Ins("Unlock", "r.mutex")>>

LocksOfDeleteExpired == <<Ins("Lock", "r.mutex"), Ins("Unlock", "r.mutex")>>

LocksOfSaveToFile ==
    <<Ins("RLock", "r.mutex"), Ins("RUnlock", "r.mutex"),
      Ins("Lock", "r.fileMutex"), Ins("WriteFile", "items_backup.json"),
      Ins("Unlock", "r.fileMutex")>>

LocksOfLogRecord == <<Ins("Lock", "s.mutex"), Ins("Unlock", "s.mutex")>>

\* LogClaim: the counter is read under the read lock, which is released
\* before LogRecord is called
LocksOfLogClaimNested ==
    <<Ins("RLock", "s.mutex")>> \o LocksOfLogRecord \o <<Ins("RUnlock", "s.mutex")>>
LocksOfLogClaim ==
    <<Ins("RLock", "s.mutex"), Ins("RUnlock", "s.mutex")>> \o LocksOfLogRecord

LocksOfSaveAuditLog ==
    <<Ins("Lock", "s.mutex"), Ins("WriteFile", "audit_log.json"),
      Ins("Unlock", "s.mutex")>>

LocksOfGetLogsWithPagination == <<Ins("RLock", "s.mutex"), Ins("RUnlock", "s.mutex")>>

LocksOfUpdateStatus == <<Ins("Lock", "m.mu"), Ins("Unlock", "m.mu")>>

LocksOfIsShareDisabled == <<Ins("RLock", "m.mu"), Ins("RUnlock", "m.mu")>>

\* ShareItem, gate open: UpdateStatus, IsShareDisabled, Create, LogShare
LocksOfShareItem ==
    LocksOfUpdateStatus \o LocksOfIsShareDisabled \o LocksOfCreate \o LocksOfLogRecord

\* ClaimItem, success: GetByPickupCode, Delete, LogClaim
LocksOfClaimItem == LocksOfGetByPickupCode \o LocksOfDelete \o LocksOfLogClaim

\* ClaimItem on an expired code: GetByPickupCode, LogInvalidCode
LocksOfClaimExpired == LocksOfLazyDelete \o LocksOfLogRecord

\* main's memory monitor goroutine: UpdateStatus, GetStatus
LocksOfSampler == LocksOfUpdateStatus \o LocksOfIsShareDisabled

Operations ==
    {"ShareItem", "ClaimItem", "ClaimExpired", "GetByPickupCode", "DeleteExpired",
     "SaveToFile", "SaveAuditLog", "GetLogsWithPagination", "Sampler"}

Program(op) ==
    CASE op = "ShareItem" -> LocksOfShareItem
      [] op = "ClaimItem" -> LocksOfClaimItem
      [] op = "ClaimExpired" -> LocksOfClaimExpired
      [] op = "GetByPickupCode" -> LocksOfGetByPickupCode
      [] op = "DeleteExpired" -> LocksOfDeleteExpired
      [] op = "SaveToFile" -> LocksOfSaveToFile
      [] op = "SaveAuditLog" -> LocksOfSaveAuditLog
      [] op = "GetLogsWithPagination" -> LocksOfGetLogsWithPagination
      [] op = "Sampler" -> LocksOfSampler

\* the calls goroutine t has made in its operation, and the call it is at
Executed(t) ==
    IF at[t].op = "none" THEN <<>> ELSE SubSeq(Program(at[t].op), 1, at[t].pos)
NextIns(t) ==
    IF at[t].op = "none" THEN Ins("none", "") ELSE Program(at[t].op)[at[t].pos + 1]

Count(calls, do, lock) ==
    Cardinality({i \in 1..Len(calls) : calls[i] = Ins(do, lock)})

\* sync.RWMutex / sync.Mutex: who holds what
HoldsWrite(t, lock) ==
    Count(Executed(t), "Lock", lock) > Count(Executed(t), "Unlock", lock)
HoldsRead(t, lock) ==
    Count(Executed(t), "RLock", lock) > Count(Executed(t), "RUnlock", lock)

\* goroutine t is in Lock
WantsWrite(t, lock) == NextIns(t) = Ins("Lock", lock)

\* Lock returns when no one holds the lock; RLock returns when no writer
\* holds it and no writer waits for readers to leave (a writer that waits
\* for the readers keeps new readers out); the other calls do not block
CanRun(t, ins) ==
    CASE ins.do = "Lock" ->
            \A u \in Goroutines : ~HoldsWrite(u, ins.lock) /\ ~HoldsRead(u, ins.lock)
      [] ins.do = "RLock" ->
            /\ \A u \in Goroutines : ~HoldsWrite(u, ins.lock)
            /\ ~ /\ \E u \in Goroutines \ {t} : WantsWrite(u, ins.lock)
                 /\ \E u \in Goroutines : HoldsRead(u, ins.lock)
      [] OTHER -> TRUE

\* a goroutine begins an operation
Start(t, op) ==
    /\ at[t] = Idle
    /\ at' = [at EXCEPT ![t] = [op |-> op, pos |-> 0]]
    /\ UNCHANGED <<life, shareReq, gateTrace, logsReq, logsResp, listed, now, storeVars, shares,
                   shareResp, shareDisabled, auditVars, claimVars, histVars>>

\* a goroutine makes its next call; after the last one the operation returns
Step(t) ==
    /\ at[t] # Idle
    /\ CanRun(t, NextIns(t))
    /\ at' = [at EXCEPT ![t] = IF at[t].pos + 1 = Len(Program(at[t].op)) THEN Idle
                               ELSE [at[t] EXCEPT !.pos = @ + 1]]
    /\ UNCHANGED <<life, shareReq, gateTrace, logsReq, logsResp, listed, now, storeVars, shares,
                   shareResp, shareDisabled, auditVars, claimVars, histVars>>

LockNext ==
    \E t \in Goroutines :
        \/ \E op \in Operations : Start(t, op)
        \/ Step(t)

LockSpec == Init /\ [][LockNext]_vars

\* a goroutine that can make its next call again and again makes it: the
\* Go scheduler runs every runnable goroutine, sync.Mutex hands the lock to
\* a waiter that has waited long (starvation mode) and sync.RWMutex lets
\* the readers that were blocked by a writer in when it unlocks
LockLiveSpec == LockSpec /\ \A t \in Goroutines : SF_vars(Step(t))

\* ------------------------------------------------- the periodic sweeper

\* main's hourly cleanup goroutine, case <-ticker.C: DeleteExpired runs, and
\* the ticker fires again an hour later
SweeperTickIdle ==
    /\ now + sweepPeriod <= MaxTime
    /\ now' = now + sweepPeriod
    /\ UNCHANGED <<unitVars, storeVars, shares, shareResp, shareDisabled, auditVars,
                   claimVars, histVars>>
SweeperTick ==
    /\ now + sweepPeriod <= MaxTime
    /\ items' = SweepItems(items)
    /\ base' = Disturb("sweeper", items')
    /\ now' = now + sweepPeriod
    /\ UNCHANGED <<unitVars, heap, shares, shareResp, shareDisabled, auditVars,
                   claimVars, won, late, removed>>

\* share requests arrive at the instants the clock of Tick shows
SweeperShare == now % ClockStep = 0 /\ ShareItem

\* records are shared and never looked up; the sweeper runs every hour
SweeperNext ==
    \/ SweeperShare
    \/ SweeperTick

SweeperSpec == Init /\ [][SweeperNext]_vars

\* the ticker of the cleanup goroutine keeps firing
SweeperLiveSpec == SweeperSpec /\ WF_vars(SweeperTick)

\* ------------------------------------------- the audit log near its cap

\* the log after n calls of LogShare, one an hour, since the start
FullLogs == {MaxRecords - 1, MaxRecords}

CapInit ==
    /\ heap = <<>>
    /\ items = [c \in Codes |-> NoItem]
    /\ shares = 0
    /\ shareResp = NoShareResp
    /\ shareDisabled = FALSE
    /\ pc = [t \in Claimers |-> "idle"]
    /\ reqCode = [t \in Claimers |-> ""]
    /\ itemPtr = [t \in Claimers |-> NoItem]
    /\ attemptRead = [t \in Claimers |-> 0]
    /\ resp = [t \in Claimers |-> NoResp]
    /\ won = [c \in Codes |-> "no"]
    /\ late = [t \in Claimers |-> "no"]
    /\ removed = [t \in Claimers |-> NoItem]
    /\ base = [t \in Claimers |-> -1]
    /\ life = [phase |-> "running", stopClosed |-> FALSE, saverAlive |-> TRUE,
               fileItems |-> {}, finalSave |-> FALSE]
    /\ at = [t \in Goroutines |-> Idle]
    /\ shareReq = NoShareReq
    /\ gateTrace = <<>>
    /\ logsReq = NoQuery
    /\ logsResp = NoLogs
    /\ listed = NoList
    /\ \E n \in FullLogs :
          /\ now = n
          /\ records = [i \in 1..n |->
                          [AuditRecord("share", "info", "A", "111111", 0, FALSE, 0)
                           EXCEPT !.timestamp = i]]
          /\ codeAttempts = [c \in Codes |-> IF c = "111111" THEN n ELSE 0]
          /\ userAttempts = [u \in Users |-> IF u = "A" THEN n ELSE 0]

\* LogShare / LogInvalidCode on a log that is full or has just been cut
CapLog(kind, u, c) ==
    /\ Len(records) >= MaxRecords - 1 \/ Len(records) < KeepRecords + MaxAppends
    /\ IF kind = "share" THEN LogShare(u, c) ELSE LogInvalidCode(u, c)
    /\ UNCHANGED <<unitVars, now, storeVars, shares, shareResp, shareDisabled,
                   claimVars, histVars>>

CapNext == \E kind \in LogKinds, c \in Codes : CapLog(kind, Prober, c)

CapSpec == CapInit /\ [][CapNext]_vars

\* ------------------------------------------------------ counter retention
\* The in-memory audit engine over days: events are logged and the clock
\* advances.  LogRecord is the only method that writes s.codeAttempts and
\* s.userAttempts, and it only counts up; no method of the engine and no
\* goroutine of main deletes an entry of the two maps.
RetentionLog(u, c) ==
    /\ Len(records) < MaxAppends
    /\ LogInvalidCode(u, c)
    /\ UNCHANGED <<unitVars, now, storeVars, shares, shareResp, shareDisabled,
                   claimVars, histVars>>

RetentionTick ==
    /\ now + ClockStep <= MaxAge
    /\ now' = now + ClockStep
    /\ UNCHANGED <<unitVars, storeVars, shares, shareResp, shareDisabled, auditVars,
                   claimVars, histVars>>

RetentionNext ==
    \/ RetentionTick
    \/ \E u \in Claimers, c \in Codes : RetentionLog(u, c)

RetentionSpec == Init /\ [][RetentionNext]_vars

\* time passes
RetentionLiveSpec == RetentionSpec /\ WF_vars(RetentionTick)

\* ------------------------------------- the audit query's paging arguments
\* Queries with paging arguments as a caller may send them (the handler
\* passes the parsed integers on unchecked) over a log longer than the
\* largest page.
QueryPages == {-1, 0, 1, 2, 3}
QueryPageSizes == {-1, 0, 1, 100, 101, 150}

\* the log an hour after maxPageSize calls of LogShare, one an hour
NormInit ==
    /\ heap = <<>>
    /\ items = [c \in Codes |-> NoItem]
    /\ shares = 0
    /\ shareResp = NoShareResp
    /\ shareDisabled = FALSE
    /\ pc = [t \in Claimers |-> "idle"]
    /\ reqCode = [t \in Claimers |-> ""]
    /\ itemPtr = [t \in Claimers |-> NoItem]
    /\ attemptRead = [t \in Claimers |-> 0]
    /\ resp = [t \in Claimers |-> NoResp]
    /\ won = [c \in Codes |-> "no"]
    /\ late = [t \in Claimers |-> "no"]
    /\ removed = [t \in Claimers |-> NoItem]
    /\ base = [t \in Claimers |-> -1]
    /\ life = [phase |-> "running", stopClosed |-> FALSE, saverAlive |-> TRUE,
               fileItems |-> {}, finalSave |-> FALSE]
    /\ at = [t \in Goroutines |-> Idle]
    /\ shareReq = NoShareReq
    /\ gateTrace = <<>>
    /\ logsReq = NoQuery
    /\ logsResp = NoLogs
    /\ listed = NoList
    /\ now = maxPageSize + 1
    /\ records = [i \in 1..maxPageSize |->
                    [AuditRecord("share", "info", "A", "111111", 0, FALSE, 0)
                     EXCEPT !.timestamp = i]]
    /\ codeAttempts = [c \in Codes |-> IF c = "111111" THEN maxPageSize ELSE 0]
    /\ userAttempts = [u \in Users |-> IF u = "A" THEN maxPageSize ELSE 0]

\* LogShare / LogInvalidCode before the query
NormLog(kind, u, c) ==
    /\ Len(records) < maxPageSize + MaxAppends
    /\ logsResp = NoLogs
    /\ IF kind = "share" THEN LogShare(u, c) ELSE LogInvalidCode(u, c)
    /\ UNCHANGED <<unitVars, now, storeVars, shares, shareResp, shareDisabled,
                   claimVars, histVars>>

NormNext ==
    \/ \E kind \in LogKinds : NormLog(kind, Prober, "111111")
    \/ \E page \in QueryPages, pageSize \in QueryPageSizes, filters \in Filters :
          PageQuery(page, pageSize, filters)

NormSpec == NormInit /\ [][NormNext]_vars

\* ------------------------------------------------ the audit query's filters
\* GET /api/audit/logs hands the five query parameters on as they came
QueryFilters ==
    {[action |-> a, level |-> "", user_id |-> u, pickup_code |-> c, time_range |-> tr] :
        a \in {"", "share"}, u \in {"", "a", "NOW"}, c \in {"", "12", "2"},
        tr \in {"", "1h", "all", "30d"}}
    \cup {[action |-> "", level |-> "warning", user_id |-> "", pickup_code |-> "",
           time_range |-> ""]}

\* LogShare of a sharer, LogInvalidCode of a request that named no user
FilterLog(kind, c) ==
    /\ Len(records) < MaxAppends
    /\ logsResp = NoLogs
    /\ IF kind = "share" THEN LogShare("A", c) ELSE LogInvalidCode("unknown", c)
    /\ UNCHANGED <<unitVars, now, storeVars, shares, shareResp, shareDisabled,
                   claimVars, histVars>>

FilterTick ==
    /\ now < MaxHours
    /\ logsResp = NoLogs
    /\ now' = now + 1
    /\ UNCHANGED <<unitVars, storeVars, shares, shareResp, shareDisabled, auditVars,
                   claimVars, histVars>>

FilterNext ==
    \/ FilterTick
    \/ \E kind \in LogKinds, c \in Codes : FilterLog(kind, c)
    \/ \E page \in {1, 2}, pageSize \in {1, 2}, filters \in QueryFilters :
          PageQuery(page, pageSize, filters)

FilterSpec == Init /\ [][FilterNext]_vars

\* ------------------------------------------------------ listing the store
\* the orders in which a range over the map r.items may visit its keys
KeyOrders ==
    {order \in [1..Cardinality(Codes) -> Codes] :
        \A c \in Codes : \E k \in 1..Cardinality(Codes) : order[k] = c}

\* GetAll: the entries of the map in the order the range visits them,
\* appended unless GetCurrentTime().After(item.ExpiresAt)
GetAllUnfiltered(order) ==
    SelectSeq([k \in 1..Len(order) |-> items[order[k]]], LAMBDA o : o # NoItem)
GetAll(order) ==
    SelectSeq([k \in 1..Len(order) |-> items[order[k]]],
              LAMBDA o : o # NoItem /\ ~After(now, heap[o].expiresAt))

\* one call of GetAll (main's exportItemsToCSV, the repository's callers)
ListItems ==
    /\ ~listed.called
    /\ \E order \in KeyOrders : listed' = [called |-> TRUE, items |-> GetAll(order)]
    /\ UNCHANGED <<life, at, shareReq, gateTrace, logsReq, logsResp, now, storeVars,
                   shares, shareResp, shareDisabled, auditVars, claimVars, histVars>>

\* the server with the listing taken at any moment of its run
ListNext ==
    \/ ~listed.called /\ (Tick \/ DeleteExpired \/ ShareItem \/ ClaimItem)
    \/ ListItems

ListSpec == Init /\ [][ListNext]_vars

\* ===================================================================
\* Claims
\* ===================================================================

\* request t went through the successful branch as far as its Delete
Deleted(t) ==
    \/ pc[t] \in {"respond", "logClaim"}
    \/ pc[t] = "done" /\ resp[t].code = 200

\* the audit records request t has logged (its claimer id is its own)
RecordsOf(t) == {i \in 1..Len(records) : records[i].user = t}

\* C1: at most one winner: two claim requests never both return success
\* (response code 200) for the same record.
C1_AtMostOneWinner ==
    \A t1, t2 \in Claimers :
        (t1 # t2 /\ resp[t1].code = 200 /\ resp[t2].code = 200)
            => itemPtr[t1] # itemPtr[t2]

\* C2: the claim sequence is one atomic unit per code: nothing takes effect
\* on the code between a claim's lookup and its removal, so the entry its
\* Delete takes out of the map is the record it looked up.
C2_ClaimIsAtomic ==
    \A t \in Claimers : Deleted(t) => removed[t] = itemPtr[t]

\* C3: idempotent absence: once the record shared under a code has been
\* claimed with success, a claim that begins later, with no new share of
\* that code, is answered not-found or already-claimed, never success.
C3_IdempotentAbsence ==
    \A t \in Claimers :
        (late[t] # "no" /\ resp[t] # NoResp) => resp[t].code \in {404, 409}

\* C3 witness: a later claim on a claimed code has been answered
C3_Witness ==
    \E t \in Claimers : late[t] = "finished" /\ resp[t].code = 404

\* C4: share, claim by B (success), claim by D right after B's claim has
\* finished: D is answered 409 AlreadyClaimed and its audit record is a
\* duplicate_code event of level alert with the suspicious flag.
C4_SecondClaimAlreadyClaimed ==
    \A t \in Claimers :
        (late[t] = "finished" /\ pc[t] = "done")
            => /\ resp[t].code = 409
               /\ \A i \in RecordsOf(t) :
                      /\ records[i].action = "duplicate_code"
                      /\ records[i].level = "alert"
                      /\ records[i].suspicious

\* C5: once the concurrent claims on one code have all completed (one of
\* them with success, the code not shared again), a lookup of the code
\* returns the record, marked claimed, with a non-empty claimer id.
C5_RecordKeptMarkedClaimed ==
    \A c \in Codes :
        ( /\ \A t \in Claimers : pc[t] = "done" /\ reqCode[t] = c
          /\ \E t \in Claimers : resp[t].code = 200
          /\ won[c] # "no" )
            => /\ LookupOutcome(c) = "found"
               /\ heap[items[c]].isClaimed
               /\ heap[items[c]].claimerID # ""

C7_ResponseNamesClaimer ==
    \A t \in Claimers :
        resp[t].code = 200
            => /\ resp[t].claimed
               /\ resp[t].pickup = reqCode[t]
               /\ resp[t].claimer = t

\* C8: a create under a code that has a live record fails (the share is not
\* answered 200) and leaves that record in the store.
C8_CreateRejectsDuplicate ==
    [][\A c \in Codes :
          ( /\ Len(heap') = Len(heap) + 1
            /\ heap'[Len(heap')].code = c
            /\ items[c] # NoItem
            /\ ~IsExpired(items[c]) )
              => items'[c] = items[c] /\ shareResp'.http # 200]_vars

\* C9: a lookup returns a record only if now is not after the record's
\* expiration; an unknown or expired code yields absent (nil, no error),
\* which the claim handler answers 404.
C9_LookupNeverReturnsExpired ==
    [][\A t \in Claimers :
          /\ (pc[t] = "idle" /\ pc'[t] = "checkClaimed")
                => /\ itemPtr'[t] = items[reqCode'[t]]
                   /\ itemPtr'[t] # NoItem
                   /\ ~After(now, heap[itemPtr'[t]].expiresAt)
          /\ (pc[t] = "idle" /\ pc'[t] # "idle"
                /\ (items[reqCode'[t]] = NoItem \/ IsExpired(items[reqCode'[t]])))
                => pc'[t] \in {"notfound", "lazyDelete"}
          /\ (pc[t] = "lazyDelete" /\ pc'[t] # "lazyDelete")
                => pc'[t] = "notfound" /\ itemPtr'[t] = NoItem
          /\ (pc[t] = "notfound" /\ pc'[t] # "notfound")
                => resp'[t].code = 404]_vars

\* C9 witness: a lookup has returned a record at the very instant of its
\* expiration, and another lookup has found an expired record
C9_Witness ==
    \E t, u \in Claimers :
        /\ pc[t] = "checkClaimed" /\ heap[itemPtr[t]].expiresAt = now
        /\ pc[u] = "done" /\ removed[u] # NoItem /\ resp[u].code = 404

C11_ExpirationIsTerminal ==
    [][/\ \A c \in Codes :
             (items[c] # NoItem /\ After(now, heap[items[c]].expiresAt))
                => /\ ~( /\ Len(heap') = Len(heap) + 1
                         /\ heap'[Len(heap')].code = c
                         /\ shareResp'.http = 200 )
                   /\ \A t \in Claimers :
                         ~(pc[t] = "idle" /\ pc'[t] = "checkClaimed" /\ reqCode'[t] = c)
       /\ \A t \in Claimers :
             (pc[t] = "checkExpired" /\ pc'[t] \in {"mark", "respond"})
                => ~Before(heap[itemPtr[t]].expiresAt, now)]_vars

\* C11 (amended): once a record's expiration instant has passed, swept or
\* not, no lookup returns it and no claim decides success for it: a lookup
\* that meets it ends in not-found, a claim whose expiry check meets it ends
\* in expired.  (A create may reuse the code.)
C11_ExpiredRecordNeverServed ==
    [][\A t \in Claimers :
          /\ (pc[t] = "idle" /\ pc'[t] # "idle" /\ items[reqCode'[t]] # NoItem
                /\ After(now, heap[items[reqCode'[t]]].expiresAt))
                => pc'[t] = "lazyDelete"
          /\ (pc[t] = "lazyDelete" /\ pc'[t] # "lazyDelete") => pc'[t] = "notfound"
          /\ (pc[t] = "checkExpired" /\ pc'[t] # "checkExpired"
                /\ After(now, heap[itemPtr[t]].expiresAt))
                => pc'[t] = "expired"
          /\ (pc[t] = "expired" /\ pc'[t] # "expired") => resp'[t].code = 410]_vars

\* C11 witness: a claim has been answered expired for a record that no sweep
\* had removed, and a later share has reused an expired code
C11_Witness ==
    \E t \in Claimers :
        /\ resp[t].code = 410
        /\ items[reqCode[t]] # NoItem
        /\ heap[items[reqCode[t]]].createdAt > heap[itemPtr[t]].expiresAt

\* C12: for every accepted share the expiration returned to the sharer is
\* the record's creation time plus the TTL, which is the expiration stored
\* in the record; a lookup of the returned code finds the record until the
\* returned instant and not after it.
C12_ReturnedExpiryIsStoredExpiry ==
    [][/\ (Len(heap') = Len(heap) + 1 /\ shareResp'.http = 200)
             => /\ shareResp'.expiresAt = heap'[Len(heap')].createdAt + TTL
                /\ shareResp'.expiresAt = heap'[Len(heap')].expiresAt
       /\ \A t \in Claimers :
             ( /\ pc[t] = "idle" /\ pc'[t] # "idle"
               /\ shareResp.http = 200 /\ reqCode'[t] = shareResp.pickup
               /\ items[shareResp.pickup] = Len(heap) )
                => (pc'[t] = "checkClaimed" <=> ~After(now, shareResp.expiresAt))]_vars

\* C13: every record held in the store has expiration = creation + the
\* fixed process-wide TTL (one TTL for all records of the store), after any
\* sequence of load-from-backup, migrate, share and sweep operations.
C13_StoredExpiryIsCreationPlusTTL ==
    \E ttl \in {TTL, migrateDuration} :
        \A c \in Codes :
            items[c] # NoItem
                => heap[items[c]].expiresAt = heap[items[c]].createdAt + ttl

\* a step of the sweeper that removed something: the only step that changes
\* the map without allocating a record or moving a claim request
SweepStep == items' # items /\ heap' = heap /\ pc' = pc

\* C14 (as stated): deleteExpired removes exactly the records whose
\* expiration is at or before now: after it none with expiration <= now
\* remains, and every record with expiration > now is still there.
C14_SweepRemovesAtOrBefore ==
    [][SweepStep
          => \A c \in Codes :
                /\ items'[c] # NoItem => After(heap[items'[c]].expiresAt, now)
                /\ (items[c] # NoItem /\ After(heap[items[c]].expiresAt, now))
                      => items'[c] = items[c]]_vars

\* C14 (amended): deleteExpired removes exactly the records whose
\* expiration is strictly before now: after it none with expiration < now
\* remains, and every record with expiration >= now is still there, unchanged.
C14_SweepRemovesStrictlyBefore ==
    [][SweepStep
          => /\ heap' = heap
             /\ \A c \in Codes :
                   /\ items'[c] # NoItem => ~(heap[items'[c]].expiresAt < now)
                   /\ (items[c] # NoItem /\ heap[items[c]].expiresAt >= now)
                         => items'[c] = items[c]]_vars

\* C14 witness: a record has left the map that no claim, lookup or share took
\* out of it, while a record expiring at this very instant is still stored
C14_Witness ==
    \E o \in 1..Len(heap) :
        /\ \A c \in Codes : items[c] # o
        /\ IsLatest(o) /\ ~heap[o].isClaimed
        /\ \A t \in Claimers : removed[t] # o
        /\ \E c \in Codes : items[c] # NoItem /\ heap[items[c]].expiresAt = now

\* C15: admission hysteresis: from an open gate, every sample at or above
\* 0.8 leaves the gate closed, every sample at or below 0.7 leaves it open,
\* and a sample in between leaves it as it was; so for samples rising to
\* 0.8 or above, then 0.75, then 0.65 the gate is closed, still closed, open.
C15_Hysteresis ==
    \A i \in 1..Len(gateTrace) :
        LET before == IF i = 1 THEN FALSE ELSE gateTrace[i - 1].disabled
            u == gateTrace[i].usage
        IN gateTrace[i].disabled = (IF u >= 80 THEN TRUE
                                    ELSE IF u <= 70 THEN FALSE
                                    ELSE before)

\* C15 witness: usage rises from 0.75 to 0.85, falls to 0.75, then to 0.65
C15_Witness ==
    /\ Len(gateTrace) = 4
    /\ [i \in 1..4 |-> gateTrace[i].usage] = <<75, 85, 75, 65>>
    /\ [i \in 1..4 |-> gateTrace[i].disabled] = <<FALSE, TRUE, TRUE, FALSE>>

\* C16: a share request that finds the admission gate closed (after its own
\* UpdateStatus) is answered 503 without a pickup code and leaves the store
\* as it was: no record is created.
C16_RejectedShareLeavesStore ==
    [][(shares' = shares + 1 /\ (shareDisabled' \/ shareResp'.http = 503))
          => /\ shareResp'.http = 503
             /\ shareResp'.pickup = ""
             /\ items' = items
             /\ heap' = heap]_vars

\* C16 witness: a share has been rejected while the store held a record
C16_Witness ==
    shareResp.http = 503 /\ shareDisabled /\ GetTotalCount = 1 /\ shares = 2

\* C17: a claim is never blocked by the admission gate: whatever the gate, a
\* claim request can begin on any code, a request under way can take its
\* next step, and no claim is answered service-unavailable.
C17_ClaimNeverGated ==
    \A t \in Claimers :
        /\ resp[t].http # 503
        /\ pc[t] = "idle" => \A c \in Codes : ENABLED ClaimLookup(t, c)
        /\ pc[t] \notin {"idle", "done"}
              => ENABLED ( \/ ClaimLazyDelete(t) \/ ClaimNotFound(t)
                           \/ ClaimCheckClaimed(t) \/ ClaimDuplicate(t)
                           \/ ClaimCheckExpired(t) \/ ClaimExpired(t)
                           \/ ClaimMark(t) \/ ClaimSetClaimer(t)
                           \/ ClaimDelete(t) \/ ClaimRespond(t)
                           \/ ClaimLogClaim(t) )

\* C17 witness: a claim has been answered with success while the gate is
\* closed and the last share was rejected
C17_Witness ==
    \E t \in Claimers :
        /\ pc[t] = "logClaim" /\ resp[t].code = 200
        /\ shareDisabled /\ shareResp.http = 503

\* C18: every logged event adds exactly one to the attempt counter of its
\* pickup code when that is non-empty and to the counter of its actor when
\* that is non-empty, and to no other counter: the counter of a key is the
\* number of logged events that reference the key.
C18_CountersCountEvents ==
    /\ \A c \in Codes :
          codeAttempts[c] = Cardinality({i \in 1..Len(records) : records[i].code = c})
    /\ \A u \in Users :
          userAttempts[u] = Cardinality({i \in 1..Len(records) : records[i].user = u})

\* C18 witness: three events on one code, two of one actor, one of them
\* without a pickup code
C18_Witness ==
    /\ codeAttempts["111111"] = 3
    /\ userAttempts["A"] = 2
    /\ \E i \in 1..Len(records) : records[i].code = "" /\ records[i].user = "A"

\* the events logged so far that reference pickup code c
EventsOn(c) == Cardinality({i \in 1..Len(records) : records[i].code = c})

Matching == {i \in 1..Len(records) : Matches(records[i], logsReq.filters)}

\* the least number of pages of size S that hold T records
PagesFor(T, S) == CHOOSE k \in 0..T : k * S >= T /\ (k = 0 \/ (k - 1) * S < T)

\* C20: for T records passing the filters and page size S, the query
\* reports total = T and total_pages = ceil(T/S); page p holds the records
\* at positions (p-1)*S .. min(p*S, T)-1 of the filtered list, newest first;
\* a page beyond the last is empty with the same total.
C20_Pagination ==
    logsResp # NoLogs
        => LET T == Cardinality(Matching)
               S == logsReq.pageSize
               p == logsReq.page
               first == (p - 1) * S
               last == IF p * S < T THEN p * S ELSE T
               whole == BubbleSort(FilterRecords(records, logsReq.filters), 0)
               logs == logsResp.logs
           IN /\ logsResp.total = T
              /\ logsResp.totalPages = PagesFor(T, S)
              /\ Len(logs) = IF first < T THEN last - first ELSE 0
              /\ \A k \in 1..Len(logs) : logs[k] = whole[first + k]
              /\ \A k \in 1..Len(logs) : Matches(logs[k], logsReq.filters)
              /\ \A k \in 1..(Len(logs) - 1) :
                    logs[k].timestamp >= logs[k + 1].timestamp
              /\ p > logsResp.totalPages => logs = <<>>

\* C20 witness: page 1 of size 2 over 5 matching records, not all of one
\* timestamp: 2 records and 3 pages
C20_Witness ==
    /\ Len(records) = 5 /\ Cardinality(Matching) = 5
    /\ logsReq.page = 1 /\ logsReq.pageSize = 2
    /\ Len(logsResp.logs) = 2 /\ logsResp.totalPages = 3 /\ logsResp.total = 5
    /\ records[1].timestamp < records[5].timestamp
    /\ logsResp.logs[1] = records[5]

\* C21: a failure of the store during a claim's lookup or delete is
\* answered with the internal-failure code 500, never as not-found; a claim
\* is answered not-found only after a lookup to which the store answered
\* that no live record exists (no entry, or an expired one).
C21_StoreFailureIsNotNotFound ==
    [][\A t \in Claimers :
          /\ (pc[t] \in {"storeError", "deleteError"} /\ pc'[t] # pc[t])
                => pc'[t] = "done" /\ resp'[t].code = 500
          /\ (pc[t] = "idle" /\ pc'[t] = "notfound")
                => LookupOutcome(reqCode'[t]) = "absent"
          /\ (pc[t] = "idle" /\ pc'[t] = "lazyDelete")
                => LookupOutcome(reqCode'[t]) = "expired"
          /\ (pc'[t] = "notfound" /\ pc[t] # "notfound")
                => pc[t] \in {"idle", "lazyDelete"}
          /\ (resp'[t].code = 404 /\ resp[t] = NoResp) => pc[t] = "notfound"]_vars

\* C21 witness: a lookup of a live record failed and was answered 500, and
\* a failed delete was answered 500 with the record still stored
C21_Witness ==
    \E t1, t2 \in Claimers :
        /\ pc[t1] = "done" /\ resp[t1] = [NoResp EXCEPT !.http = 200, !.code = 500]
        /\ LookupOutcome(reqCode[t1]) = "found"
        /\ pc[t2] = "done" /\ resp[t2].http = 500 /\ resp[t2].code = 500
        /\ items[reqCode[t2]] = itemPtr[t2]

\* the HTTP status the README documents for the branch a claim request ends in
DocumentedStatus(position) ==
    CASE position = "idle" -> 400
      [] position = "notfound" -> 404
      [] position = "duplicate" -> 409
      [] position = "expired" -> 410
      [] position \in {"storeError", "deleteError"} -> 500
      [] OTHER -> 200

\* C23: every rejected claim carries the documented HTTP status of its
\* cause: 400 malformed request, 404 no item found, 409 already claimed,
\* 410 expired, 500 internal error; only a successful claim is answered
\* with HTTP 200.
C23_DocumentedHttpStatus ==
    [][\A t \in Claimers :
          (pc[t] # "done" /\ pc'[t] = "done")
              => resp'[t].http = DocumentedStatus(pc[t])]_vars

\* a share has just stored a record
Shared == Len(heap') = Len(heap) + 1

\* C24: for every record created by a share, durability and durability
\* loss are both set or both unset; a request that supplies only one of
\* the two never produces a record with exactly one of them set.
C24_DurabilityBothOrNeither ==
    \A o \in 1..Len(heap) : heap[o].durability > 0 <=> heap[o].durabilityLoss > 0

\* C24 amended: each of the two is set exactly when the request supplies
\* it, with the request's value; a request that supplies only one of the
\* two produces a record with exactly that one set.
C24_DurabilityPerField ==
    [][Shared =>
          LET item == heap'[Len(heap')]
          IN /\ item.durability = shareReq'.durability
             /\ item.durabilityLoss = shareReq'.durabilityLoss]_vars

\* C24 witness: a request with durability 90 and no durability loss has
\* been stored
C24_Witness ==
    /\ shareReq = [durability |-> 90, durabilityLoss |-> 0]
    /\ heap # <<>>
    /\ heap[Len(heap)].durability = 90 /\ heap[Len(heap)].durabilityLoss = 0

\* a sample of the memory monitor changed the gate outside a share request
SampleStep == shareDisabled' # shareDisabled /\ shares' = shares

\* the periodic save wrote the backup file
SaveStep == life'.fileItems # life.fileItems /\ life'.phase = life.phase

\* C22: every background periodic task (sweeper, periodic save, memory
\* sampler) observes the stop signal before its next tick: once Shutdown
\* has closed the stop channel no tick body runs any more, and on every
\* path to process exit the final synchronous save has been executed.
C22_StopObservedAndFinalSave ==
    /\ [](life.phase = "exited" => life.finalSave)
    /\ [][life.stopClosed => ~(SweepStep \/ SampleStep \/ SaveStep)]_vars

\* the record object o is in the store's map
Stored(o) == \E c \in Codes : items[c] = o

\* C25: the store exclusively owns its records: a record that is in the
\* store's map is read and written only inside the store's operations,
\* under its lock; no caller changes a stored record through the pointer a
\* lookup returned (the handler's setting of the claimed flag and of the
\* claimer id never touches a record that is still in the map).
C25_StoreOwnsRecords ==
    [][\A o \in 1..Len(heap) : Stored(o) => heap'[o] = heap[o]]_vars

\* C26: the lazy-expiration path of a lookup removes only the expired
\* record it observed: the entry its write-locked delete takes out of the
\* map is never a record that is not expired.
C26_LazyDeleteOnlyExpired ==
    [][\A t \in Claimers :
          (pc[t] = "lazyDelete" /\ pc'[t] # pc[t] /\ items'[reqCode[t]] # items[reqCode[t]])
              => /\ IsExpired(items[reqCode[t]])
                 /\ items[reqCode[t]] = itemPtr[t]]_vars

\* C27: a sample whose usage lies strictly between the enable threshold
\* (0.7) and the disable threshold (0.8) leaves the gate as it was, open
\* or closed; the gate changes only on a sample >= 0.8 (to closed) or
\* <= 0.7 (to open), so it does not flap while usage stays in the band.
C27_BandLeavesGate ==
    [][Len(gateTrace') = Len(gateTrace) + 1
          => LET u == gateTrace'[Len(gateTrace')].usage
             IN /\ (enableThreshold < u /\ u < disableThreshold)
                      => shareDisabled' = shareDisabled
                /\ (~shareDisabled /\ shareDisabled') => u >= disableThreshold
                /\ (shareDisabled /\ ~shareDisabled') => u <= enableThreshold]_vars

\* C27 witness: a sample of 0.75 has left a closed gate closed and, later,
\* an open gate open
C27_Witness ==
    /\ Len(gateTrace) = 4
    /\ [i \in 1..4 |-> gateTrace[i].usage] = <<85, 75, 65, 75>>
    /\ [i \in 1..4 |-> gateTrace[i].disabled] = <<TRUE, TRUE, FALSE, FALSE>>

\* goroutine t is inside a file write
InFileWrite(t) == NextIns(t).do = "WriteFile"

\* C28: no operation holds an exclusive lock of the store or of the audit
\* engine during file I/O: a goroutine that is inside a file write holds
\* neither the record-map lock nor the audit-record lock in write mode.
C28_NoWriteLockAcrossIO ==
    \A t \in Goroutines :
        InFileWrite(t) => ~HoldsWrite(t, "r.mutex") /\ ~HoldsWrite(t, "s.mutex")

\* C29: no operation blocks its caller for ever: under any interleaving of
\* share, claim, lookup, sweep, periodic save, audit logging, audit query
\* and gate sampling, every operation that has started releases the locks
\* it took and returns.
C29_OperationsComplete ==
    \A t \in Goroutines : (at[t] # Idle) ~> (at[t] = Idle)

\* C29 witness: a claim is blocked in Delete's Lock of the record map while
\* the periodic save holds it for reading
C29_Witness ==
    \E t, u \in Goroutines :
        /\ at[t].op = "ClaimItem" /\ WantsWrite(t, "r.mutex")
        /\ at[u].op = "SaveToFile" /\ HoldsRead(u, "r.mutex")

\* C30: with the sweeper ticking and no lookup or claim touching its code,
\* every record is removed from the store after its expiration instant (as
\* far as the clock runs); a record whose expiration equals the now of a
\* sweep is removed by the following sweep at the latest.
C30_SweeperRemovesEventually ==
    /\ \A o \in 1..MaxShares :
          (o <= Len(heap) /\ Stored(o) /\ heap[o].expiresAt + sweepPeriod < MaxTime)
              ~> ~Stored(o)
    /\ [](\A o \in 1..Len(heap) :
              Stored(o) => now <= heap[o].expiresAt + sweepPeriod)

\* C30 witness: the only record shared was in the store at the sweep at its
\* expiration instant and is gone after the following sweep
C30_Witness ==
    /\ Len(heap) = 1 /\ ~Stored(1)
    /\ now = heap[1].expiresAt + 2 * sweepPeriod

\* C31: the in-memory audit log is bounded: after every LogRecord call it
\* holds at most 10000 records; an append that takes it above 10000 cuts it
\* to the 5000 most recently appended records in their order, so only the
\* oldest records are discarded and the retained ones are not modified.
C31_LogIsBounded ==
    [][records' # records =>
          LET n == Len(records)
              new == records'[Len(records')]
          IN /\ Len(records') <= MaxRecords
             /\ n + 1 <= MaxRecords
                   => /\ Len(records') = n + 1
                      /\ \A i \in 1..n : records'[i] = records[i]
             /\ n + 1 > MaxRecords
                   => /\ Len(records') = KeepRecords
                      /\ \A i \in 1..(KeepRecords - 1) :
                            records'[i] = records[n + 1 - KeepRecords + i]]_vars

\* C31 witness: the log of 10000 records has been cut to the newest 5000
\* (the oldest kept is the record of hour 5002) and has grown again
C31_Witness ==
    /\ Len(records) = KeepRecords + 2
    /\ records[1].timestamp = MaxRecords - KeepRecords + 2
    /\ records[KeepRecords].action = "invalid_code"
    /\ codeAttempts["111111"] > Len(records)

\* a counter is held for the key although no record of the log has
\* referenced the key within the counter retention window
StaleCode(c) ==
    /\ codeAttempts[c] > 0
    /\ \A i \in 1..Len(records) :
          records[i].code = c => records[i].timestamp + counterRetention < now

StaleUser(u) ==
    /\ userAttempts[u] > 0
    /\ \A i \in 1..Len(records) :
          records[i].user = u => records[i].timestamp + counterRetention < now

\* C32: attempt counters are pruned: a counter whose key has not been
\* referenced for the counter retention window of 7 days is eventually
\* removed (or referenced again), so the set of counters does not grow
\* without bound.
C32_StaleCounterRemoved ==
    /\ \A c \in Codes : StaleCode(c) ~> ~StaleCode(c)
    /\ \A u \in Claimers : StaleUser(u) ~> ~StaleUser(u)

\* C33: the audit query normalises its paging arguments before use: a page
\* below 1 is treated as page 1, a page size above 100 is clamped to 100, a
\* page size below 1 is replaced by the default 10; the response shows the
\* normalised values, its records are those of the normalised page, and it
\* never holds more than 100 records.
C33_PagingNormalised ==
    logsResp # NoLogs
        => LET p == IF logsReq.page < 1 THEN 1 ELSE logsReq.page
               S == IF logsReq.pageSize < 1 THEN defaultPageSize
                    ELSE IF logsReq.pageSize > maxPageSize THEN maxPageSize
                    ELSE logsReq.pageSize
               T == Cardinality(Matching)
               first == (p - 1) * S
               last == IF p * S < T THEN p * S ELSE T
           IN /\ logsResp.page = p
              /\ logsResp.pageSize = S
              /\ logsResp.total = T
              /\ logsResp.totalPages = PagesFor(T, S)
              /\ Len(logsResp.logs) = IF first < T THEN last - first ELSE 0
              /\ Len(logsResp.logs) <= maxPageSize

\* C33 witness: page 0 with page size 101 over 102 records answers as page 1
\* of size 100 with the 100 newest records, the two of the last hour first
C33_Witness ==
    /\ logsReq.page = 0 /\ logsReq.pageSize = 101
    /\ Len(records) = maxPageSize + 2 /\ logsResp.total = maxPageSize + 2
    /\ logsResp.page = 1 /\ logsResp.pageSize = maxPageSize
    /\ Len(logsResp.logs) = maxPageSize /\ logsResp.totalPages = 2
    /\ logsResp.logs[1] = records[maxPageSize + 1]
    /\ logsResp.logs[2] = records[maxPageSize + 2]
    /\ logsResp.logs[maxPageSize] = records[3]

\* the time window of a query: a record is inside when it is not older
\* than the hours the time_range value names
InWindow(r, f) ==
    f.time_range \in DOMAIN windowHours
        => r.timestamp >= now - windowHours[f.time_range]

\* the records a query is to return, as the claim states it: the substring
\* filters compare the strings as they are
ContainsAsWritten(r, f) ==
    /\ f.action # "" => r.action = f.action
    /\ f.level # "" => r.level = f.level
    /\ f.user_id # "" => Contains(Chars[r.user], Chars[f.user_id])
    /\ f.pickup_code # "" => Contains(Chars[r.code], Chars[f.pickup_code])
    /\ InWindow(r, f)

\* the same with the substring filters ignoring letter case
ContainsIgnoringCase(r, f) ==
    /\ f.action # "" => r.action = f.action
    /\ f.level # "" => r.level = f.level
    /\ f.user_id # "" => Contains(ToLower(Chars[r.user]), ToLower(Chars[f.user_id]))
    /\ f.pickup_code # ""
          => Contains(ToLower(Chars[r.code]), ToLower(Chars[f.pickup_code]))
    /\ InWindow(r, f)

\* the positions Idx of the log, newest first, equal timestamps in
\* insertion order
NewestFirst(Idx) ==
    CHOOSE s \in [1..Cardinality(Idx) -> Idx] :
        \A k, l \in 1..Cardinality(Idx) :
            k < l => \/ records[s[k]].timestamp > records[s[l]].timestamp
                     \/ /\ records[s[k]].timestamp = records[s[l]].timestamp
                        /\ s[k] < s[l]

\* the pages p..last of the query of logsReq, one after the other
RECURSIVE PagesFrom(_, _)
PagesFrom(p, last) ==
    IF p > last THEN <<>>
    ELSE GetLogsWithPagination(p, logsReq.pageSize, logsReq.filters).logs
             \o PagesFrom(p + 1, last)

\* the answer of the query is the list of the records at the positions Idx
AnswerIs(Idx) ==
    LET s == NewestFirst(Idx)
        view == [k \in 1..Cardinality(Idx) |-> records[s[k]]]
        first == (logsResp.page - 1) * logsResp.pageSize
    IN /\ logsResp.total = Len(view)
       /\ PagesFrom(1, logsResp.totalPages) = view
       /\ \A k \in 1..Len(logsResp.logs) : logsResp.logs[k] = view[first + k]
       /\ Len(logsResp.logs) =
             IF first >= Len(view) THEN 0
             ELSE IF first + logsResp.pageSize > Len(view) THEN Len(view) - first
             ELSE logsResp.pageSize

\* C34 as stated: the query result is the filtered log in non-increasing
\* timestamp order: exactly the records that match every non-empty filter
\* (action equal, level equal, actor id contains the substring, pickup code
\* contains the substring, timestamp inside the time window), equal
\* timestamps in insertion order, the pages 1..total_pages concatenated are
\* that list, and the query does not modify the log.
C34_FilteredViewAsWritten ==
    /\ [](logsResp # NoLogs
            => AnswerIs({i \in 1..Len(records) :
                            ContainsAsWritten(records[i], logsReq.filters)}))
    /\ [][logsResp' # logsResp => auditVars' = auditVars]_vars

\* C34 amended: the same with the two substring filters ignoring letter
\* case: a record matches when its actor id (pickup code) contains the
\* filter value after both are brought to one case.
C34_FilteredViewIgnoringCase ==
    /\ [](logsResp # NoLogs
            => AnswerIs({i \in 1..Len(records) :
                            ContainsIgnoringCase(records[i], logsReq.filters)}))
    /\ [][logsResp' # logsResp => auditVars' = auditVars]_vars

\* C34 witness: the actor filter NOW and the window of one hour over a
\* share of A and two requests of "unknown" logged in the same hour with
\* different codes: the two requests pass, the older-inserted one first,
\* one per page
C34_Witness ==
    /\ logsReq.filters.user_id = "NOW" /\ logsReq.filters.time_range = "1h"
    /\ logsReq.filters.pickup_code = "2" /\ logsReq.filters.action = ""
    /\ logsReq.page = 2 /\ logsReq.pageSize = 1
    /\ Len(records) = 2
    /\ records[1].user = "unknown" /\ records[2].user = "unknown"
    /\ records[1].timestamp = records[2].timestamp
    /\ records[1].code = "222222" /\ records[2].code = "222222"
    /\ records[1].timestamp = now - 1
    /\ logsResp.total = 2 /\ logsResp.totalPages = 2
    /\ logsResp.logs = <<records[2]>>

\* C35: GetAll returns exactly the records of the store whose expiration
\* timestamp has not passed at the time of the call, each at most once, and
\* leaves the store unchanged: the expired records it skips stay in the
\* map; whatever create, claim or sweep is under way, every record it
\* returns is a record of the store.
C35_ListsLiveRecords ==
    [][listed' # listed =>
          LET got == listed'.items
          IN /\ items' = items /\ heap' = heap
             /\ \A k, l \in 1..Len(got) : k # l => got[k] # got[l]
             /\ {got[k] : k \in 1..Len(got)}
                   = {o \in 1..Len(heap) : Stored(o) /\ now <= heap[o].expiresAt}]_vars

\* C35 witness: the store holds an expired record and one that is not, a
\* claim is under way, and the listing returned the one that is not
C35_Witness ==
    /\ listed.called /\ Len(listed.items) = 1
    /\ \E o \in 1..Len(heap) : Stored(o) /\ heap[o].expiresAt < now
    /\ \E t \in Claimers : pc[t] # "idle"

\* C36: a share whose create call fails never returns a success response:
\* the caller receives an error status and no pickup code and no share
\* event (the informational record of LogShare, which names the pickup
\* code) is logged for it; a share that returned success has its record
\* visible to lookup under the returned code.
C36_FailedCreateIsNoSuccess ==
    [][shares' = shares + 1 =>
          LET event == records'[Len(records')]
          IN /\ Len(records') = Len(records) + 1
             /\ (items' = items /\ heap' = heap)
                   => /\ shareResp'.http >= 400
                      /\ shareResp'.pickup = ""
                      /\ event.level = "error" /\ event.code = ""
                      /\ event.status = shareResp'.http
             /\ shareResp'.http = 200
                   => /\ shareResp'.pickup \in Codes
                      /\ items'[shareResp'.pickup] = Len(heap')
                      /\ Len(heap') = Len(heap) + 1
                      /\ heap'[Len(heap')].code = shareResp'.pickup
                      /\ ~After(now', heap'[Len(heap')].expiresAt)
                      /\ event.action = "share" /\ event.level = "info"
                      /\ event.code = shareResp'.pickup]_vars

\* C36 witness: the gate was open, Create failed on the second share and
\* was answered 500; the store still holds the record of the first share
C36_Witness ==
    /\ shares = 2 /\ shareResp.http = 500 /\ shareResp.pickup = ""
    /\ ~shareDisabled /\ GetTotalCount = 1 /\ Len(heap) = 1
    /\ Len(records) = 2 /\ records[2].level = "error" /\ records[2].status = 500
    /\ records[1].action = "share" /\ records[1].level = "info"

\* C37: the suspicious/alert decision of LogClaim is consistent with the
\* record it appends: no other audit event for the same pickup code is
\* logged between LogClaim's read of the code's attempt counter and the
\* append of the claim record, so the count the record was decided on (and
\* names in its suspicious reason) is the counter of the code immediately
\* before the record's own increment.
C37_DecisionOnCurrentCount ==
    [][\A t \in Claimers :
          /\ (pc[t] \in {"logClaim", "logClaimFailed"} /\ pc'[t] = pc[t]
                 /\ records' # records)
                => records'[Len(records')].code # reqCode[t]
          /\ (pc[t] \in {"logClaim", "logClaimFailed"} /\ pc'[t] = "idle")
                => LET rec == records'[Len(records')]
                   IN /\ attemptRead[t] = codeAttempts[reqCode[t]]
                      /\ rec.suspicious <=> codeAttempts[reqCode[t]] > 3
                      /\ rec.suspicious => rec.reason = codeAttempts[reqCode[t]]]_vars

====
